---- MODULE Spec2Model ----
(***************************************************************************)
(* Model of the resilient REST client of gh_code_scanning:                 *)
(*   GitHubRestClient.request  (src/src/gh_code_scanning/rest.py, 48-119)  *)
(*   GitHubRestClient.paginate (src/src/gh_code_scanning/rest.py, 121-153) *)
(* and of the helpers of utils.py they call.                               *)
(*                                                                         *)
(* Durations are in tenths of a second, so that backoff_base_s = 0.8 is    *)
(* the integer 8 and max_backoff_s = 10.0 is 100.  Clock readings          *)
(* (int(time.time())) and X-RateLimit-Reset values are whole seconds.      *)
(***************************************************************************)
EXTENDS Integers, Sequences, FiniteSets, TLC

VARIABLES
    max_retries,      \* client field, rest.py:28
    backoff_base_s,   \* client field, rest.py:29 (tenths of a second)
    max_backoff_s,    \* client field, rest.py:30 (tenths of a second)
    pc,               \* position of the request() call: "idle", "loop", "done"
    attempt,          \* loop variable of request(), rest.py:59
    last_err,         \* local of request(), rest.py:57
    url,              \* local of request(), rest.py:56
    req_params,       \* params argument of the running request() call
    hist,             \* what the running call did: HTTP calls and sleeps, in order
    result,           \* how the call ended: response returned or error raised
    calls,            \* number of request() calls made on this client
    prev,             \* what the request() call before the running one did
    pg_pc,            \* position of the paginate() generator
    next_url,         \* local of paginate(), rest.py:132
    params_local,     \* local of paginate(), rest.py:133
    pg_resp,          \* local resp of paginate(), rest.py:136
    data,             \* local of paginate(), rest.py:137
    item_ix,          \* number of elements of data already yielded (for loop, rest.py:147)
    yielded,          \* the items handed to the consumer, in order
    served,           \* the pages the upstream served to this paginate(), in order
    pg_err,           \* the error paginate() raised, if any
    env,              \* os.environ: GITHUB_TOKEN and GH_TOKEN, auth.py:8
    hostname_for_gh,  \* argument of create_clients(), __init__.py:14
    cc_pc,            \* position of create_clients(): "start", "gh", "built", "failed"
    token,            \* local of create_clients(), __init__.py:21
    gh_runs,          \* the hostnames `gh auth token` was run with, in order
    proc,             \* how the latest `gh auth token` subprocess ended
    rest_token,       \* token field of the client built, rest.py:22
    link_tokens,      \* the tokens the upstream composed a Link header of
    lk_link,          \* argument link of parse_link_header, utils.py:12: the header text
    parts,            \* local of parse_link_header, utils.py:21
    part_ix,          \* number of parts the for loop has passed, utils.py:22
    lk_out,           \* local out of parse_link_header, utils.py:18
    lk_pc,            \* position of parse_link_header: "start", "loop", "done"
    tw_op,            \* the operation both REST clients are asked for
    tw_path,          \* its path argument
    sa_pc,            \* position of the standalone client, code_scanning_api.py:124-220
    sa_attempt,       \* loop variable of its request(), code_scanning_api.py:135
    sa_last_err,      \* local of its request(), code_scanning_api.py:133
    sa_url,           \* local url of its request() and paginate(), code_scanning_api.py:132, 199
    sa_params,        \* params of its request(), params_local of its paginate()
    sa_hist,          \* what the standalone client did: HTTP calls and sleeps, in order
    sa_calls,         \* the URL and the params of each of its HTTP calls
    sa_result,        \* how its call ended
    sa_resp,          \* local resp of its paginate(), code_scanning_api.py:202
    sa_data,          \* local data of its paginate(), code_scanning_api.py:206
    sa_item_ix,       \* number of elements of sa_data already yielded
    sa_yielded,       \* the items its paginate() handed to the consumer
    sa_pages,         \* number of page fetches of its paginate()
    cs_impl,          \* the module of the CodeScanningClient called
    cs_pc,            \* position of its method: "idle", "rest", "raised", "returned", "failed"
    cs_req,           \* the call the method made on its REST client
    cs_err,           \* the kind of the error the method raised
    tr_pc,            \* position of triage_and_act.py
    tr_dry,           \* args.dry_run, triage_and_act.py:148
    tr_rules,         \* the switches of the rules file, triage_and_act.py:164-179
    tr_repos,         \* repositories still to visit, triage_and_act.py:181
    tr_alerts,        \* alerts of the repository still to visit, triage_and_act.py:198
    tr_owners,        \* the repository has CODEOWNERS rules, triage_and_act.py:195
    tr_counts,        \* action_counts, triage_and_act.py:175
    tr_log,           \* the calls triage_and_act.py made on its clients, in order
    au_pc,            \* position of autofix_campaign.py
    au_max,           \* args.max, autofix_campaign.py:156
    au_max_prs,       \* args.max_prs, autofix_campaign.py:162
    au_dry,           \* args.dry_run, autofix_campaign.py:170
    au_fail_fast,     \* args.no_sleep_on_rate_limit, autofix_campaign.py:169
    au_alerts,        \* alerts the for loop has not taken yet, autofix_campaign.py:187
    processed,        \* autofix_campaign.py:183
    opened_prs,       \* autofix_campaign.py:184
    unsupported_rules,\* autofix_campaign.py:185
    au_log,           \* the operations autofix_campaign.py asked of the upstream
    rc_pc,            \* position of retry_call: "idle", "try", "returned", "raised", "fell"
    rc_attempt,       \* attempt, autofix_campaign.py:104
    rc_retries,       \* retries, autofix_campaign.py:103
    rc_rest,          \* rest is not None, autofix_campaign.py:108
    rc_sleep_on,      \* sleep_on_rate_limit, autofix_campaign.py:103
    rc_hist,          \* the calls of fn, the rate-limit reads and the sleeps, in order
    rc_raised,        \* the error retry_call raised
    wf_pc,            \* position of wait_for_autofix_ready: "idle", "loop", "true", "false"
    wf_timeout,       \* timeout_s, autofix_campaign.py:123
    wf_elapsed,       \* time.time() - start, autofix_campaign.py:125
    wf_polls,         \* the polls made, each with the time it was made at
    up_issues,        \* the open issues of the repository, newest first
    up_calls,         \* the calls of the last upsert_issue
    am_pc,            \* position of enable_automerge_all_repos.py
    am_force,         \* args.force, enable_automerge_all_repos.py:214
    am_dry,           \* args.dry_run, enable_automerge_all_repos.py:217
    am_left,          \* repositories the loop has not taken yet, ...:238
    am_log,           \* the calls made on the upstream, in order
    bf_pc,            \* position of bulk_add_dependabot_codeql.py
    bf_update,        \* args.update_existing, bulk_add_dependabot_codeql.py:1347
    bf_dry,           \* args.dry_run
    bf_left,          \* files still to apply
    bf_log            \* one entry for each ensure_file: the file, the PUTs, the value returned

vars == <<max_retries, backoff_base_s, max_backoff_s, pc, attempt, last_err, url,
          req_params, hist, result, calls, prev, pg_pc, next_url, params_local, pg_resp,
          data, item_ix, yielded, served, pg_err, env, hostname_for_gh, cc_pc,
          token, gh_runs, proc, rest_token, link_tokens, lk_link, parts, part_ix,
          lk_out, lk_pc, tw_op, tw_path, sa_pc, sa_attempt, sa_last_err, sa_url,
          sa_params, sa_hist, sa_calls, sa_result, sa_resp, sa_data, sa_item_ix,
          sa_yielded, sa_pages, cs_impl, cs_pc, cs_req, cs_err, tr_pc, tr_dry, tr_rules,
          tr_repos, tr_alerts, tr_owners, tr_counts, tr_log, au_pc, au_max, au_max_prs,
          au_dry, au_fail_fast, au_alerts, processed, opened_prs, unsupported_rules,
          au_log, rc_pc, rc_attempt, rc_retries, rc_rest, rc_sleep_on, rc_hist, rc_raised,
          wf_pc, wf_timeout, wf_elapsed, wf_polls, up_issues, up_calls, am_pc, am_force,
          am_dry, am_left, am_log, bf_pc, bf_update, bf_dry, bf_left, bf_log>>

linkVars == <<link_tokens, lk_link, parts, part_ix, lk_out, lk_pc>>
factoryVars == <<env, hostname_for_gh, cc_pc, token, gh_runs, proc, rest_token>>
clientVars == <<max_retries, backoff_base_s, max_backoff_s>>
callVars == <<pc, attempt, last_err, url, req_params, hist, result, calls, prev>>
pageVars == <<pg_pc, next_url, params_local, pg_resp, data, item_ix, yielded, served, pg_err>>
restVars == <<clientVars, callVars, pageVars>>
twinVars == <<tw_op, tw_path, sa_pc, sa_attempt, sa_last_err, sa_url, sa_params, sa_hist,
              sa_calls, sa_result, sa_resp, sa_data, sa_item_ix, sa_yielded, sa_pages>>
domainVars == <<cs_impl, cs_pc, cs_req, cs_err>>
triageVars == <<tr_pc, tr_dry, tr_rules, tr_repos, tr_alerts, tr_owners, tr_counts, tr_log>>
autofixVars == <<au_pc, au_max, au_max_prs, au_dry, au_fail_fast, au_alerts, processed,
                 opened_prs, unsupported_rules, au_log>>
retryVars == <<rc_pc, rc_attempt, rc_retries, rc_rest, rc_sleep_on, rc_hist, rc_raised>>
pollVars == <<wf_pc, wf_timeout, wf_elapsed, wf_polls>>
upsertVars == <<up_issues, up_calls>>
mergeVars == <<am_pc, am_force, am_dry, am_left, am_log>>
bulkVars == <<bf_pc, bf_update, bf_dry, bf_left, bf_log>>
toolVars == <<retryVars, pollVars, upsertVars, mergeVars, bulkVars>>
scriptVars == <<triageVars, autofixVars, toolVars>>

\* what the steps of one part of the program leave alone: the variables of
\* the other parts
outsideRest == <<factoryVars, linkVars, twinVars, domainVars, scriptVars>>
outsideFactory == <<restVars, linkVars, twinVars, domainVars, scriptVars>>
outsideLink == <<restVars, factoryVars, twinVars, domainVars, scriptVars>>
outsideTwin == <<restVars, factoryVars, linkVars, domainVars, scriptVars>>
outsideRestTwin == <<factoryVars, linkVars, domainVars, scriptVars>>
outsideClients == <<factoryVars, linkVars, scriptVars>>
outsideTriage == <<restVars, factoryVars, linkVars, twinVars, domainVars, autofixVars,
                   toolVars>>
outsideAutofix == <<restVars, factoryVars, linkVars, twinVars, domainVars, triageVars,
                    toolVars>>
outsideTools == <<restVars, factoryVars, linkVars, twinVars, domainVars, triageVars,
                  autofixVars>>
outsideRetry == <<outsideTools, pollVars, upsertVars, mergeVars, bulkVars>>
outsidePoll == <<outsideTools, retryVars, upsertVars, mergeVars, bulkVars>>
outsideUpsert == <<outsideTools, retryVars, pollVars, mergeVars, bulkVars>>
outsideMerge == <<outsideTools, retryVars, pollVars, upsertVars, bulkVars>>
outsideBulk == <<outsideTools, retryVars, pollVars, upsertVars, mergeVars>>

(***************************************************************************)
(* Bounds of the model.                                                    *)
(***************************************************************************)
MaxRetries == 2      \* largest max_retries a client is built with
MaxCalls == 2        \* request() calls made directly by a caller
MaxPages == 3        \* page fetches of one paginate()

(***************************************************************************)
(* Program constants.                                                      *)
(***************************************************************************)
ShortWaitLimit == 15        \* rest.py:98
DefaultBackoffBase == 8     \* rest.py:29, 0.8 s
DefaultMaxBackoff == 100    \* rest.py:30, 10.0 s
TenthsPerSecond == 10       \* unit of the durations of this model
DefaultMaxRetries == 4      \* rest.py:28

Min(a, b) == IF a <= b THEN a ELSE b
Max(a, b) == IF a >= b THEN a ELSE b

RECURSIVE Pow2(_)
Pow2(n) == IF n = 0 THEN 1 ELSE 2 * Pow2(n - 1)

(***************************************************************************)
(* Strings are sequences of one-character strings, so that lower() and the *)
(* substring test of is_rate_limited are computed.                         *)
(***************************************************************************)
LowerChar(c) ==
    CASE c = "A" -> "a" [] c = "E" -> "e" [] c = "I" -> "i" [] c = "L" -> "l"
      [] c = "M" -> "m" [] c = "P" -> "p" [] c = "R" -> "r" [] c = "T" -> "t"
      [] c = "N" -> "n" [] c = "O" -> "o" [] c = "G" -> "g" [] c = "H" -> "h"
      [] c = "S" -> "s" [] c = "F" -> "f"
      [] OTHER -> c

Lower(s) == [i \in 1..Len(s) |-> LowerChar(s[i])]

Contains(s, needle) ==
    \E i \in 1..(Len(s) + 1) :
        /\ i + Len(needle) - 1 <= Len(s)
        /\ SubSeq(s, i, i + Len(needle) - 1) = needle

RateLimitNeedle == <<"r", "a", "t", "e", " ", "l", "i", "m", "i", "t">>   \* utils.py:49

MsgApiRateLimit == <<"A", "P", "I", " ", "r", "a", "t", "e", " ", "l", "i", "m", "i", "t">>
MsgUpperRateLimit == <<"R", "A", "T", "E", " ", "L", "I", "M", "I", "T">>
MsgRatelimitOneWord == <<"r", "a", "t", "e", "l", "i", "m", "i", "t">>
MsgNo == <<"N", "o">>

(***************************************************************************)
(* Header values.  A header is absent, or present with a value that is a   *)
(* string of decimal digits (val is its number) or some other string.      *)
(***************************************************************************)
NoHeader == [present |-> FALSE, digits |-> FALSE, val |-> 0]
TextHeader == [present |-> TRUE, digits |-> FALSE, val |-> 0]
NumHeader(n) == [present |-> TRUE, digits |-> TRUE, val |-> n]

\* Optional[int]: None or an integer
None == [some |-> FALSE, val |-> 0]
Some(n) == [some |-> TRUE, val |-> n]

(***************************************************************************)
(* JSON bodies: not JSON at all, an object (with or without a "message"),  *)
(* or an array of items.                                                   *)
(***************************************************************************)
NotJson == [json |-> "none", has_message |-> FALSE, message |-> <<>>, items |-> <<>>]
JsonObject == [json |-> "dict", has_message |-> FALSE, message |-> <<>>, items |-> <<>>]
JsonMessage(m) == [json |-> "dict", has_message |-> TRUE, message |-> m, items |-> <<>>]
JsonList(xs) == [json |-> "list", has_message |-> FALSE, message |-> <<>>, items |-> xs]

(***************************************************************************)
(* What one session.request() call gives: a response, or a Timeout or      *)
(* ConnectionError exception of the requests library.                      *)
(***************************************************************************)
Response(st, rem, rst, body, link) ==
    [kind |-> "response", status_code |-> st, remaining |-> rem, reset |-> rst,
     body |-> body, link |-> link, request_id |-> 0]

NetworkFailure(k) ==
    [kind |-> k, status_code |-> 0, remaining |-> NoHeader, reset |-> NoHeader,
     body |-> NotJson, link |-> <<>>, request_id |-> 0]

NoResponse == NetworkFailure("none")

(***************************************************************************)
(* utils.py                                                                *)
(***************************************************************************)
safe_json(resp) == resp.body

req_id(resp) == resp.request_id

try_get_rate_limit_reset(resp) ==
    IF resp.reset.present /\ resp.reset.digits THEN Some(resp.reset.val) ELSE None

\* variant: the body message is not looked at
is_rate_limited_HeaderOnly(resp) ==
    resp.remaining.present /\ resp.remaining.digits /\ resp.remaining.val = 0

is_rate_limited(resp) ==
    \/ resp.remaining.present /\ resp.remaining.digits /\ resp.remaining.val = 0
    \/ /\ safe_json(resp).json = "dict"
       /\ Contains(Lower(IF safe_json(resp).has_message
                         THEN safe_json(resp).message ELSE <<>>), RateLimitNeedle)

\* variants: no cap; exponent one too high
sleep_backoff_Uncapped(a, base_s, max_s) == base_s * Pow2(a)
sleep_backoff_NextPower(a, base_s, max_s) == Min(max_s, base_s * Pow2(a + 1))

\* variant: the delay grows linearly
sleep_backoff_Linear(a, base_s, max_s) == Min(max_s, base_s * (a + 1))

sleep_backoff(a, base_s, max_s) == Min(max_s, base_s * Pow2(a))

(***************************************************************************)
(* exceptions.py, and the two exceptions of requests that request() sees.  *)
(***************************************************************************)
Error(kind, status, reset_epoch, resp) ==
    [kind |-> kind, status |-> status, reset_epoch |-> reset_epoch,
     response_json |-> safe_json(resp), request_id |-> req_id(resp)]

NoError == Error("None", 0, None, NoResponse)
RuntimeError == Error("RuntimeError", 0, None, NoResponse)
TransportError(out) == Error(out.kind, 0, None, out)

ApiErrorKinds ==
    {"GitHubApiError", "GitHubAuthError", "GitHubNotFoundError", "GitHubRateLimitError"}

(***************************************************************************)
(* rest.py, _raise_for_status (155-169)                                    *)
(***************************************************************************)
\* variant: 404 is not told apart
raise_for_status_No404(resp) ==
    IF resp.status_code = 401 THEN Error("GitHubAuthError", 401, None, resp)
    ELSE Error("GitHubApiError", resp.status_code, None, resp)

raise_for_status(resp) ==
    IF resp.status_code = 401 THEN Error("GitHubAuthError", 401, None, resp)
    ELSE IF resp.status_code = 404 THEN Error("GitHubNotFoundError", 404, None, resp)
    ELSE Error("GitHubApiError", resp.status_code, None, resp)

(***************************************************************************)
(* rest.py, the body of the try block of request() (69-92): the exception  *)
(* it raises for a response, NoError when it returns the response.         *)
(***************************************************************************)
\* variant: only 200 counts as success
RaisedFor_Only200(resp) ==
    IF resp.status_code = 429
    THEN Error("GitHubRateLimitError", resp.status_code, try_get_rate_limit_reset(resp), resp)
    ELSE IF resp.status_code = 403 /\ is_rate_limited(resp)
    THEN Error("GitHubRateLimitError", resp.status_code, try_get_rate_limit_reset(resp), resp)
    ELSE IF resp.status_code > 200
    THEN raise_for_status(resp)
    ELSE NoError

RaisedFor(resp) ==
    IF resp.status_code = 429
    THEN Error("GitHubRateLimitError", resp.status_code, try_get_rate_limit_reset(resp), resp)
    ELSE IF resp.status_code = 403 /\ is_rate_limited(resp)
    THEN Error("GitHubRateLimitError", resp.status_code, try_get_rate_limit_reset(resp), resp)
    ELSE IF resp.status_code >= 400
    THEN raise_for_status(resp)
    ELSE NoError

\* rest.py:97, the wait in whole seconds until the disclosed reset
RateLimitWait(reset_epoch, now) == Max(0, reset_epoch - now)

\* variant: any disclosed reset is waited for, however far
ShortWait_AnyDisclosed(e, now) == e.reset_epoch.some

\* rest.py:96-98, the handler sleeps and retries instead of re-raising
ShortWait(e, now) ==
    e.reset_epoch.some /\ RateLimitWait(e.reset_epoch.val, now) <= ShortWaitLimit

\* variants: 504 forgotten; 501 retried as well
TransientStatus_No504(st) == st \in {500, 502, 503}
TransientStatus_With501(st) == st \in {500, 501, 502, 503, 504}

\* rest.py:112, the statuses retried with backoff
TransientStatus(st) == st \in {500, 502, 503, 504}

\* rest.py:59, the value the loop variable takes after a `continue`
NextAttempt(a) == a + 1

\* variant: one iteration too many
InRange_OffByOne(a, retries) == a < retries + 2

\* rest.py:59, range(max_retries + 1) still has a value for the loop variable
InRange(a, retries) == a < retries + 1

(***************************************************************************)
(* The record of what a call did.                                          *)
(***************************************************************************)
\* an HTTP call of iteration a and its outcome; a time.sleep(dur) of iteration a,
\* with the clock reading the rate-limit handler took (0 for a backoff sleep)
HttpEvent(out, a) ==
    [ev |-> "http", out |-> out, why |-> "", dur |-> 0, attempt |-> a, now |-> 0]
SleepEvent(why, dur, a, now) ==
    [ev |-> "sleep", out |-> NoResponse, why |-> why, dur |-> dur, attempt |-> a, now |-> now]

\* how a call ended, and where in request(): in the try block, in an except
\* handler, or in the code after the loop
Pending == [kind |-> "pending", resp |-> NoResponse, err |-> NoError, at |-> ""]
Return(resp) == [kind |-> "return", resp |-> resp, err |-> NoError, at |-> "try"]
Raise(e) == [kind |-> "raise", resp |-> NoResponse, err |-> e, at |-> "handler"]

(***************************************************************************)
(* URLs are sequences of segments: a scheme segment first when absolute.   *)
(***************************************************************************)
BaseUrl == <<"https://", "api.github.com">>                 \* rest.py:23
ListPath == <<"/repos/o/r/code-scanning/alerts">>
NextPageUrl == <<"https://", "api.github.com", "/repositories/1/alerts?page=next">>
LastPageUrl == <<"https://", "api.github.com", "/repositories/1/alerts?page=last">>

NoParams == <<>>
CallerParams == <<"per_page=100">>

\* utils.py:8-9
is_absolute_url(s) == Len(s) > 0 /\ s[1] \in {"https://", "http://"}

RECURSIVE rstrip_slash(_)
rstrip_slash(s) ==
    IF Len(s) > 0 /\ s[Len(s)] = "/" THEN rstrip_slash(SubSeq(s, 1, Len(s) - 1)) ELSE s

\* variant: the base URL is put before every argument
build_url_AlwaysPrefix(path_or_url) == rstrip_slash(BaseUrl) \o path_or_url

\* rest.py:43-46
build_url(path_or_url) ==
    IF is_absolute_url(path_or_url) THEN path_or_url ELSE rstrip_slash(BaseUrl) \o path_or_url

(***************************************************************************)
(* What the upstream may answer to one HTTP call.                          *)
(***************************************************************************)
ClockStart == 1000          \* a reading of int(time.time())
Clock == {ClockStart}

ResetHeaders ==
    {NoHeader, TextHeader, NumHeader(0), NumHeader(ClockStart + ShortWaitLimit),
     NumHeader(ClockStart + ShortWaitLimit + 1)}

OkResponses ==
    {Response(200, NoHeader, NoHeader, JsonObject, <<>>),
     Response(204, NoHeader, NoHeader, NotJson, <<>>),
     Response(200, NumHeader(0), NumHeader(ClockStart), JsonObject, <<>>)}

TooManyResponses == {Response(429, NoHeader, r, NotJson, <<>>) : r \in ResetHeaders}

ForbiddenMarked ==
    {Response(403, m[1], r, m[2], <<>>) :
        m \in {<<NumHeader(0), NotJson>>,
               <<NoHeader, JsonMessage(MsgApiRateLimit)>>,
               <<NumHeader(1), JsonMessage(MsgUpperRateLimit)>>},
        r \in {NoHeader, NumHeader(ClockStart + ShortWaitLimit),
               NumHeader(ClockStart + ShortWaitLimit + 1)}}

ForbiddenPlain ==
    {Response(403, NoHeader, NoHeader, NotJson, <<>>),
     Response(403, NumHeader(1), NumHeader(ClockStart), JsonMessage(MsgRatelimitOneWord), <<>>),
     Response(403, TextHeader, NoHeader, JsonObject, <<>>)}

OtherErrors ==
    {Response(st, NoHeader, NoHeader, JsonMessage(MsgNo), <<>>) : st \in {400, 401, 404, 422, 501}}
    \cup {Response(401, NumHeader(0), NumHeader(ClockStart), NotJson, <<>>),
          Response(404, NoHeader, NumHeader(ClockStart), JsonMessage(MsgApiRateLimit), <<>>)}

TransientErrors ==
    {Response(st, NoHeader, NoHeader, NotJson, <<>>) : st \in {500, 502, 503, 504}}

NetworkFailures == {NetworkFailure("Timeout"), NetworkFailure("ConnectionError")}

(***************************************************************************)
(* Link headers are sequences of the comma-separated parts; a part either  *)
(* has the form <url>; rel="name" or does not match it.                    *)
(***************************************************************************)
LinkPart(u, rel) == [wf |-> TRUE, url |-> u, rel |-> rel]
BadPart(u, rel) == [wf |-> FALSE, url |-> u, rel |-> rel]

LinkHeaders ==
    {<<>>,
     <<LinkPart(NextPageUrl, "next")>>,
     <<LinkPart(NextPageUrl, "last"), LinkPart(LastPageUrl, "next")>>,
     <<LinkPart(LastPageUrl, "last"), BadPart(NextPageUrl, "next")>>}

PageBodies == {<<>>, <<"a">>, <<"a", "b">>, <<"b", "a">>}

\* what the upstream may answer to the HTTP call of a page fetch
PageOutcomes ==
    {Response(200, NoHeader, NoHeader, JsonList(b), l) : b \in PageBodies, l \in LinkHeaders}
      \cup {Response(200, NoHeader, NoHeader, JsonMessage(MsgNo), <<LinkPart(NextPageUrl, "next")>>),
            Response(204, NoHeader, NoHeader, NotJson, <<>>),
            Response(503, NoHeader, NoHeader, NotJson, <<>>),
            Response(404, NoHeader, NoHeader, JsonMessage(MsgNo), <<>>),
            Response(429, NoHeader, NumHeader(ClockStart), NotJson, <<>>),
            NetworkFailure("Timeout")}

Outcomes ==
    OkResponses \cup TooManyResponses \cup ForbiddenMarked \cup ForbiddenPlain
      \cup OtherErrors \cup TransientErrors \cup NetworkFailures

(***************************************************************************)
(* GitHubRestClient.request, rest.py:48-119.                               *)
(***************************************************************************)
\* rest.py:117-119, the code after the loop
AfterLoop(lerr) ==
    [kind |-> "raise", resp |-> NoResponse,
     err |-> IF lerr.kind # "None" THEN lerr ELSE RuntimeError, at |-> "after_loop"]

\* rest.py:59, a `continue` from iteration a: the next iteration, or the end
\* of the loop and the code after it
LoopContinue(a, retries, lerr) ==
    IF InRange(NextAttempt(a), retries)
    THEN [pc |-> "loop", attempt |-> NextAttempt(a), result |-> Pending]
    ELSE [pc |-> "done", attempt |-> a, result |-> AfterLoop(lerr)]

\* the upstream's response to the HTTP call of this iteration, stamped with
\* the request id the upstream gives it
Stamp(out) == [out EXCEPT !.request_id = IF out.kind = "response" THEN Len(hist) + 1 ELSE 0]

Upstream == IF pg_pc = "fetch" THEN PageOutcomes ELSE Outcomes

\* variant: the loop goes on from the value the variable was left with
RangeStart_Carried(a) == a

\* rest.py:59, the first value of the loop variable, whatever value a an
\* earlier call left
RangeStart(a) == 0

\* rest.py:56-59, request() is entered: the locals are set and the loop begins
EnterRequest(path, params) ==
    /\ url' = build_url(path)
    /\ req_params' = params
    /\ last_err' = NoError
    /\ hist' = <<>>
    /\ attempt' = RangeStart(attempt)
    /\ IF InRange(RangeStart(attempt), max_retries)
       THEN pc' = "loop" /\ result' = Pending
       ELSE pc' = "done" /\ result' = AfterLoop(NoError)

\* no call was made before; what a call that has ended did: the number of
\* its HTTP calls and whether it raised
NoCall == [http |-> 0, raised |-> FALSE]
Summary ==
    [http |-> Cardinality({i \in 1..Len(hist) : hist[i].ev = "http"}),
     raised |-> result.kind = "raise"]

\* a caller calls request() directly
request_call(path, params) ==
    /\ pc \in {"idle", "done"}
    /\ pg_pc = "idle"
    /\ calls < MaxCalls
    /\ EnterRequest(path, params)
    /\ calls' = calls + 1
    /\ prev' = Summary
    /\ UNCHANGED <<outsideRest, clientVars, pageVars>>

\* rest.py:61-92, an iteration whose response has a status below 400
attempt_return(out) ==
    /\ pc = "loop"
    /\ out.kind = "response"
    /\ RaisedFor(out).kind = "None"
    /\ hist' = Append(hist, HttpEvent(Stamp(out), attempt))
    /\ result' = Return(Stamp(out))
    /\ pc' = "done"
    /\ UNCHANGED <<attempt, last_err, url, req_params, calls, prev, outsideRest, clientVars, pageVars>>

\* rest.py:69-87 and 94-101, an iteration that raises GitHubRateLimitError
attempt_rate_limit(out, now) ==
    /\ pc = "loop"
    /\ out.kind = "response"
    /\ RaisedFor(out).kind = "GitHubRateLimitError"
    /\ LET e == RaisedFor(Stamp(out))
           h == Append(hist, HttpEvent(Stamp(out), attempt))
       IN IF ShortWait(e, now)
          THEN LET nxt == LoopContinue(attempt, max_retries, last_err)
                   dur == (RateLimitWait(e.reset_epoch.val, now) + 1) * TenthsPerSecond
               IN /\ hist' = Append(h, SleepEvent("rate_limit", dur, attempt, now))
                  /\ pc' = nxt.pc
                  /\ attempt' = nxt.attempt
                  /\ result' = nxt.result
          ELSE /\ hist' = h
               /\ pc' = "done"
               /\ result' = Raise(e)
               /\ UNCHANGED attempt
    /\ UNCHANGED <<last_err, url, req_params, calls, prev, outsideRest, clientVars, pageVars>>

\* variant: a network failure is always slept on
BudgetSpent_Never(a, retries) == FALSE

\* rest.py:105, no retry is left for a network failure
BudgetSpent(a, retries) == a >= retries

\* rest.py:61-67 and 103-108, an iteration whose HTTP call fails at network level
attempt_network(out) ==
    /\ pc = "loop"
    /\ out.kind \in {"Timeout", "ConnectionError"}
    /\ LET e == TransportError(out)
           h == Append(hist, HttpEvent(out, attempt))
       IN /\ last_err' = e
          /\ IF BudgetSpent(attempt, max_retries)
             THEN /\ hist' = h
                  /\ pc' = "done"
                  /\ result' = Raise(e)
                  /\ UNCHANGED attempt
             ELSE LET nxt == LoopContinue(attempt, max_retries, e)
                      dur == sleep_backoff(attempt, backoff_base_s, max_backoff_s)
                  IN /\ hist' = Append(h, SleepEvent("backoff", dur, attempt, 0))
                     /\ pc' = nxt.pc
                     /\ attempt' = nxt.attempt
                     /\ result' = nxt.result
    /\ UNCHANGED <<url, req_params, calls, prev, outsideRest, clientVars, pageVars>>

\* rest.py:89-90 and 110-115, an iteration that raises a GitHubApiError which
\* is not a GitHubRateLimitError
attempt_api_error(out) ==
    /\ pc = "loop"
    /\ out.kind = "response"
    /\ RaisedFor(out).kind \in ApiErrorKinds \ {"GitHubRateLimitError"}
    /\ LET e == RaisedFor(Stamp(out))
           h == Append(hist, HttpEvent(Stamp(out), attempt))
       IN /\ last_err' = e
          /\ IF TransientStatus(e.status) /\ attempt < max_retries
             THEN LET nxt == LoopContinue(attempt, max_retries, e)
                      dur == sleep_backoff(attempt, backoff_base_s, max_backoff_s)
                  IN /\ hist' = Append(h, SleepEvent("backoff", dur, attempt, 0))
                     /\ pc' = nxt.pc
                     /\ attempt' = nxt.attempt
                     /\ result' = nxt.result
             ELSE /\ hist' = h
                  /\ pc' = "done"
                  /\ result' = Raise(e)
                  /\ UNCHANGED attempt
    /\ UNCHANGED <<url, req_params, calls, prev, outsideRest, clientVars, pageVars>>

(***************************************************************************)
(* utils.py, parse_link_header (12-27): the mapping from relation name to  *)
(* URL, a later part with the same relation replacing an earlier one.      *)
(***************************************************************************)
EmptyMap == [rel \in {} |-> <<>>]

\* utils.py:23, re.match of the part against <url>; rel="name"
PartMatches(p) == p.wf

RECURSIVE parse_link_header(_)
parse_link_header(link) ==
    IF Len(link) = 0 THEN EmptyMap
    ELSE LET out == parse_link_header(SubSeq(link, 1, Len(link) - 1))
             p == link[Len(link)]
         IN IF PartMatches(p)
            THEN [rel \in DOMAIN out \cup {p.rel} |-> IF rel = p.rel THEN p.url ELSE out[rel]]
            ELSE out

\* dict.get(key): the value, or None, written <<>> (both are false in a test)
MapGet(m, key) == IF key \in DOMAIN m THEN m[key] ELSE <<>>

(***************************************************************************)
(* GitHubRestClient.paginate, rest.py:121-153.  The generator is at        *)
(* "idle" before it is created, at "fetch" while its request() call runs,  *)
(* at "for" in the loop over the page's elements, and ends "done" (end of  *)
(* the sequence), "error" (it raised) or "closed" (the consumer stopped).  *)
(***************************************************************************)
\* variant: the page is walked from its end
NextItem_Reversed(d, ix) == d[Len(d) - ix]

\* rest.py:147-148, the element the for loop yields after ix elements
NextItem(d, ix) == d[ix + 1]

\* variant: the `last` relation is followed
NextUrlOf_Last(r) == MapGet(parse_link_header(r.link), "last")

\* rest.py:150-151, the URL of the page after the one answered by r
NextUrlOf(r) == MapGet(parse_link_header(r.link), "next")

\* variant: any JSON body is taken for a page
IsList_Any(d) == d.json # "none"

\* rest.py:139, isinstance(data, list)
IsList(d) == d.json = "list"

\* variant: the for loop is left after any element
ForLoopDone_Eager(d, ix) == ix <= Len(d)

\* rest.py:147, the for loop over the page has no element left
ForLoopDone(d, ix) == ix = Len(d)

\* the request() frame is gone once paginate() has taken its result
DropRequestFrame ==
    /\ pc' = "idle"
    /\ attempt' = 0
    /\ last_err' = NoError
    /\ url' = <<>>
    /\ req_params' = NoParams
    /\ hist' = <<>>
    /\ result' = Pending
    /\ UNCHANGED <<calls, prev>>

\* rest.py:132-136, the consumer asks for the first item: the locals are set
\* and the first page is requested
paginate_start(path, params) ==
    /\ pg_pc = "idle"
    /\ pc = "idle"
    /\ next_url' = path
    /\ params_local' = params
    /\ IF Len(path) > 0
       THEN EnterRequest(path, params) /\ pg_pc' = "fetch" /\ UNCHANGED <<calls, prev>>
       ELSE pg_pc' = "done" /\ UNCHANGED callVars
    /\ UNCHANGED <<outsideRest, clientVars, pg_resp, data, item_ix, yielded, served, pg_err>>

\* rest.py:136-145, request() has ended: its error goes through paginate(),
\* or its response is parsed and must be a list
paginate_receive ==
    /\ pg_pc = "fetch"
    /\ pc = "done"
    /\ DropRequestFrame
    /\ IF result.kind = "raise"
       THEN /\ pg_pc' = "error"
            /\ pg_err' = result.err
            /\ UNCHANGED <<pg_resp, data, item_ix, served>>
       ELSE /\ pg_resp' = result.resp
            /\ served' = Append(served, [url |-> url, params |-> req_params, resp |-> result.resp])
            /\ IF result.resp.body.json = "none"
               THEN /\ pg_pc' = "error"
                    /\ pg_err' = Error("JSONDecodeError", 0, None, result.resp)
                    /\ UNCHANGED <<data, item_ix>>
               ELSE IF ~IsList(result.resp.body)
               THEN /\ pg_pc' = "error"
                    /\ pg_err' = Error("GitHubApiError", result.resp.status_code, None, result.resp)
                    /\ UNCHANGED <<data, item_ix>>
               ELSE /\ pg_pc' = "for"
                    /\ data' = result.resp.body.items
                    /\ item_ix' = 0
                    /\ UNCHANGED pg_err
    /\ UNCHANGED <<outsideRest, clientVars, next_url, params_local, yielded>>

\* rest.py:147-148, the next element of the page is yielded to the consumer
paginate_yield ==
    /\ pg_pc = "for"
    /\ ~ForLoopDone(data, item_ix)
    /\ yielded' = Append(yielded, NextItem(data, item_ix))
    /\ item_ix' = item_ix + 1
    /\ UNCHANGED <<outsideRest, clientVars, callVars, pg_pc, next_url, params_local, pg_resp, data,
                   served, pg_err>>

\* rest.py:150-153 and 135-136, the page is exhausted: the Link header gives
\* the next URL, which is requested, or the sequence ends
paginate_next_page ==
    /\ pg_pc = "for"
    /\ ForLoopDone(data, item_ix)
    /\ LET nxt == NextUrlOf(pg_resp)
           prm == IF Len(nxt) > 0 THEN NoParams ELSE params_local
       IN /\ Len(nxt) > 0 => Len(served) < MaxPages
          /\ next_url' = nxt
          /\ params_local' = prm
          /\ IF Len(nxt) > 0
             THEN EnterRequest(nxt, prm) /\ pg_pc' = "fetch" /\ UNCHANGED <<calls, prev>>
             ELSE pg_pc' = "done" /\ UNCHANGED callVars
    /\ UNCHANGED <<outsideRest, clientVars, pg_resp, data, item_ix, yielded, served, pg_err>>

\* the consumer stops iterating and the generator is closed at its yield
paginate_close ==
    /\ pg_pc = "for"
    /\ item_ix >= 1
    /\ pg_pc' = "closed"
    /\ UNCHANGED <<outsideRest, clientVars, callVars, next_url, params_local, pg_resp, data, item_ix,
                   yielded, served, pg_err>>

(***************************************************************************)
(* Token resolution: auth.py and create_clients (__init__.py:10-27).       *)
(* An Optional[str] is a record; a string is the sequence of its           *)
(* characters.                                                             *)
(***************************************************************************)
NoStr == [some |-> FALSE, val |-> <<>>]
Str(s) == [some |-> TRUE, val |-> s]

\* truth value of an Optional[str]: None and "" are false
Truthy(x) == x.some /\ Len(x.val) > 0

\* Python's `a or b`
Or(a, b) == IF Truthy(a) THEN a ELSE b

\* the characters str.strip() removes
Whitespace == {" ", "\n", "\t"}

RECURSIVE lstrip(_)
lstrip(s) == IF Len(s) > 0 /\ s[1] \in Whitespace THEN lstrip(Tail(s)) ELSE s

RECURSIVE rstrip(_)
rstrip(s) ==
    IF Len(s) > 0 /\ s[Len(s)] \in Whitespace THEN rstrip(SubSeq(s, 1, Len(s) - 1)) ELSE s

\* auth.py:23, str.strip()
strip(s) == rstrip(lstrip(s))

\* variant: GH_TOKEN is read first
get_token_from_env_GhFirst(e) == Or(e.GH_TOKEN, e.GITHUB_TOKEN)

\* auth.py:7-8
get_token_from_env(e) == Or(e.GITHUB_TOKEN, e.GH_TOKEN)

\* how a `gh auth token` subprocess can end: it exits with a code and has
\* written to its standard output, the binary is missing (FileNotFoundError),
\* or subprocess.run raises something else
GhExit(code, stdout) == [kind |-> "exit", code |-> code, stdout |-> stdout]
GhMissing == [kind |-> "missing", code |-> 0, stdout |-> <<>>]
GhError == [kind |-> "error", code |-> 0, stdout |-> <<>>]
NoProc == [kind |-> "none", code |-> 0, stdout |-> <<>>]

\* variant: the exit code is not checked
get_token_from_gh_cli_Unchecked(p) ==
    IF p.kind = "exit"
    THEN LET t == strip(p.stdout) IN IF Len(t) > 0 THEN Str(t) ELSE NoStr
    ELSE NoStr

\* auth.py:16-26, what get_token_from_gh_cli returns once the subprocess
\* has ended as p: check=True turns a non-zero exit into an exception, and
\* every exception gives None
get_token_from_gh_cli(p) ==
    IF p.kind = "exit" /\ p.code = 0
    THEN LET t == strip(p.stdout) IN IF Len(t) > 0 THEN Str(t) ELSE NoStr
    ELSE NoStr

TokenA == <<"g", "h", "p", "_", "A">>
TokenB == <<"g", "h", "p", "_", "B">>

\* values an environment variable may have: unset, empty, blank, a token
EnvValues == {NoStr, Str(<<>>), Str(<<" ">>), Str(TokenA), Str(TokenB)}

DefaultHostname == "github.com"                              \* __init__.py:14
Hostnames == {DefaultHostname, "ghe.example.com"}

GhOutcomes ==
    {GhExit(0, TokenA \o <<"\n">>),
     GhExit(0, <<"\n", " ">> \o TokenA \o <<" ">> \o TokenB \o <<"\t", "\n">>),
     GhExit(0, <<" ", "\n">>),
     GhExit(0, <<>>),
     GhExit(1, TokenB \o <<"\n">>),
     GhExit(1, <<>>),
     GhMissing,
     GhError}

\* __init__.py:22-27, the end of create_clients() with token t: no client
\* without a token
Construct(t) ==
    IF Truthy(t)
    THEN cc_pc' = "built" /\ rest_token' = t
    ELSE cc_pc' = "failed" /\ rest_token' = NoStr

\* __init__.py:21, create_clients() reads the environment; with no token
\* there, get_token_from_gh_cli starts the subprocess (auth.py:17-22)
create_clients_env ==
    /\ cc_pc = "start"
    /\ LET t == get_token_from_env(env)
       IN IF Truthy(t)
          THEN /\ token' = t
               /\ Construct(t)
               /\ UNCHANGED gh_runs
          ELSE /\ cc_pc' = "gh"
               /\ gh_runs' = Append(gh_runs, hostname_for_gh)
               /\ UNCHANGED <<token, rest_token>>
    /\ UNCHANGED <<env, hostname_for_gh, proc, outsideFactory>>

\* auth.py:23-26 and __init__.py:21-27, the subprocess has ended as p
create_clients_gh(p) ==
    /\ cc_pc = "gh"
    /\ proc' = p
    /\ LET t == Or(get_token_from_env(env), get_token_from_gh_cli(p))
       IN token' = t /\ Construct(t)
    /\ UNCHANGED <<env, hostname_for_gh, gh_runs, outsideFactory>>

\* a client the caller has built with a token of their own (rest.py:22)
BuiltByCaller ==
    /\ env = [GITHUB_TOKEN |-> NoStr, GH_TOKEN |-> NoStr]
    /\ hostname_for_gh = DefaultHostname
    /\ cc_pc = "built"
    /\ token = Str(TokenA)
    /\ gh_runs = <<>>
    /\ proc = NoProc
    /\ rest_token = Str(TokenA)

(***************************************************************************)
(* utils.py, parse_link_header (12-27) on the text of the header.  A       *)
(* string is the sequence of its characters.                               *)
(***************************************************************************)
MaxLinkTokens == 2     \* tokens the upstream puts into one Link header

\* str.split(","), utils.py:21: the pieces between the commas
RECURSIVE split_comma(_)
split_comma(s) ==
    IF \A i \in 1..Len(s) : s[i] # ","
    THEN <<s>>
    ELSE LET i == CHOOSE k \in 1..Len(s) : s[k] = "," /\ \A j \in 1..(k - 1) : s[j] # ","
         IN <<SubSeq(s, 1, i - 1)>> \o split_comma(SubSeq(s, i + 1, Len(s)))

\* the first position from i on where s has the character c, 0 when it has none
IndexFrom(s, c, i) ==
    IF \E k \in i..Len(s) : s[k] = c
    THEN CHOOSE k \in i..Len(s) : s[k] = c /\ \A j \in i..(k - 1) : s[j] # c
    ELSE 0

\* \s* from position i: the first position from i on that holds no
\* whitespace, Len(s) + 1 when the rest of s is whitespace
SkipSpace(s, i) ==
    CHOOSE k \in i..(Len(s) + 1) :
        /\ k = Len(s) + 1 \/ s[k] \notin Whitespace
        /\ \A j \in i..(k - 1) : s[j] \in Whitespace

RelPrefix == <<"r", "e", "l", "=", "\"">>
NoMatch == [ok |-> FALSE, url |-> <<>>, rel |-> <<>>]

\* utils.py:23, re.match(r'<([^>]+)>\s*;\s*rel="([^"]+)"', p): the match
\* starts at the first character of p and may end before its last one
re_match(p) ==
    IF Len(p) = 0 \/ p[1] # "<" THEN NoMatch
    ELSE LET gt == IndexFrom(p, ">", 2) IN
         IF gt < 3 THEN NoMatch
         ELSE LET semi == SkipSpace(p, gt + 1) IN
              IF semi > Len(p) \/ p[semi] # ";" THEN NoMatch
              ELSE LET r == SkipSpace(p, semi + 1) IN
                   IF r + 4 > Len(p) \/ SubSeq(p, r, r + 4) # RelPrefix THEN NoMatch
                   ELSE LET q == IndexFrom(p, "\"", r + 5) IN
                        IF q < r + 6 THEN NoMatch
                        ELSE [ok |-> TRUE, url |-> SubSeq(p, 2, gt - 1),
                              rel |-> SubSeq(p, r + 5, q - 1)]

\* utils.py:26, out[rel] = url
MapPut(m, key, val) == [k \in DOMAIN m \cup {key} |-> IF k = key THEN val ELSE m[k]]

\* utils.py:18-21, the header is empty and {} is returned, or it is split
\* at its commas and the pieces are stripped
parse_split ==
    /\ lk_pc = "start"
    /\ lk_out' = EmptyMap
    /\ part_ix' = 0
    /\ IF Len(lk_link) = 0
       THEN lk_pc' = "done" /\ parts' = <<>>
       ELSE /\ lk_pc' = "loop"
            /\ parts' = [i \in 1..Len(split_comma(lk_link)) |-> strip(split_comma(lk_link)[i])]
    /\ UNCHANGED <<link_tokens, lk_link, outsideLink>>

\* utils.py:22-26, one iteration of the loop over the parts
parse_part ==
    /\ lk_pc = "loop"
    /\ part_ix < Len(parts)
    /\ LET m == re_match(parts[part_ix + 1])
       IN lk_out' = IF m.ok THEN MapPut(lk_out, m.rel, m.url) ELSE lk_out
    /\ part_ix' = part_ix + 1
    /\ UNCHANGED <<link_tokens, lk_link, parts, lk_pc, outsideLink>>

\* utils.py:27, the loop is over and out is returned
parse_return ==
    /\ lk_pc = "loop"
    /\ part_ix = Len(parts)
    /\ lk_pc' = "done"
    /\ UNCHANGED <<link_tokens, lk_link, parts, part_ix, lk_out, outsideLink>>

(***************************************************************************)
(* The Link headers an upstream composes: tokens <url>; rel="name" with    *)
(* some whitespace around the semicolon, and tokens of another form,       *)
(* separated by commas.                                                    *)
(***************************************************************************)
LinkToken(shape, u, ws1, ws2, rel) ==
    [shape |-> shape, url |-> u, ws1 |-> ws1, ws2 |-> ws2, rel |-> rel]

UrlA == <<"h", "/", "a">>
UrlB == <<"h", "/", "b">>
UrlComma == <<"h", "?", "s", "=", "a", ",", "b">>    \* a query with a comma in it
RelNext == <<"n", "e", "x", "t">>
RelLast == <<"l", "a", "s", "t">>

\* whitespace before and after the semicolon
Spacings == {<< <<>>, <<>> >>, << <<>>, <<" ">> >>, << <<" ">>, <<>> >>,
             << <<" ", "\t">>, <<" ", " ">> >>}

GoodTokens ==
    {LinkToken("good", u, w[1], w[2], r) :
        u \in {UrlA, UrlB, UrlComma}, w \in Spacings, r \in {RelNext, RelLast}}

BadTokens ==
    {LinkToken(sh, UrlB, <<>>, <<" ">>, RelNext) :
        sh \in {"no_angle", "no_quote", "no_semicolon", "empty"}}

\* the text of a token
Render(t) ==
    CASE t.shape = "good" ->
            <<"<">> \o t.url \o <<">">> \o t.ws1 \o <<";">> \o t.ws2 \o RelPrefix \o t.rel \o <<"\"">>
      [] t.shape = "no_angle" ->
            t.url \o t.ws1 \o <<";">> \o t.ws2 \o RelPrefix \o t.rel \o <<"\"">>
      [] t.shape = "no_quote" ->
            <<"<">> \o t.url \o <<">">> \o t.ws1 \o <<";">> \o t.ws2 \o <<"r", "e", "l", "=">> \o t.rel
      [] t.shape = "no_semicolon" ->
            <<"<">> \o t.url \o <<">">> \o t.ws2 \o RelPrefix \o t.rel \o <<"\"">>
      [] t.shape = "empty" -> <<>>

Separators == {<<",">>, <<",", " ">>}

RECURSIVE Join(_, _)
Join(ts, sep) ==
    IF Len(ts) = 0 THEN <<>>
    ELSE IF Len(ts) = 1 THEN Render(ts[1])
    ELSE Join(SubSeq(ts, 1, Len(ts) - 1), sep) \o sep \o Render(ts[Len(ts)])

TokenLists == UNION {[1..n -> GoodTokens \cup BadTokens] : n \in 0..MaxLinkTokens}

\* no header is being parsed
NoLinkParse ==
    /\ link_tokens = <<>>
    /\ lk_link = <<>>
    /\ parts = <<>>
    /\ part_ix = 0
    /\ lk_out = EmptyMap
    /\ lk_pc = "idle"

\* the standalone client has not been called
NoStandaloneCall ==
    /\ tw_op = "none"
    /\ tw_path = <<>>
    /\ sa_pc = "idle"
    /\ sa_attempt = 0
    /\ sa_last_err = NoError
    /\ sa_url = <<>>
    /\ sa_params = NoParams
    /\ sa_hist = <<>>
    /\ sa_calls = <<>>
    /\ sa_result = Pending
    /\ sa_resp = NoResponse
    /\ sa_data = <<>>
    /\ sa_item_ix = 0
    /\ sa_yielded = <<>>
    /\ sa_pages = 0

\* no method of a CodeScanningClient has been called
NoReq == [method |-> "", path |-> <<>>, params |-> <<>>, body |-> <<>>]
NoDomainCall ==
    /\ cs_impl = "none"
    /\ cs_pc = "idle"
    /\ cs_req = NoReq
    /\ cs_err = "None"

\* scripts/triage_and_act.py is not running
NoRules == [auto_dismiss |-> FALSE, auto_assign |-> FALSE, escalate |-> FALSE,
            update_issue |-> FALSE]
NoCounts == [assigned |-> 0, dismissed |-> 0, escalated |-> 0]
NoTriage ==
    /\ tr_pc = "idle"
    /\ tr_dry = FALSE
    /\ tr_rules = NoRules
    /\ tr_repos = 0
    /\ tr_alerts = <<>>
    /\ tr_owners = FALSE
    /\ tr_counts = NoCounts
    /\ tr_log = <<>>

\* scripts/autofix_campaign.py is not running
NoAutofix ==
    /\ au_pc = "idle"
    /\ au_max = 0
    /\ au_max_prs = 0
    /\ au_dry = FALSE
    /\ au_fail_fast = FALSE
    /\ au_alerts = <<>>
    /\ processed = 0
    /\ opened_prs = 0
    /\ unsupported_rules = {}
    /\ au_log = <<>>

\* no GitHubApiError
NoApiError == [some |-> FALSE, status |-> 0, message |-> <<>>]

\* retry_call of scripts/autofix_campaign.py is not running
NoRetry ==
    /\ rc_pc = "idle"
    /\ rc_attempt = 0
    /\ rc_retries = 0
    /\ rc_rest = FALSE
    /\ rc_sleep_on = FALSE
    /\ rc_hist = <<>>
    /\ rc_raised = NoApiError

\* wait_for_autofix_ready of scripts/autofix_campaign.py is not running
NoPoll ==
    /\ wf_pc = "idle"
    /\ wf_timeout = 0
    /\ wf_elapsed = 0
    /\ wf_polls = <<>>

\* no upsert_issue was called, and the repository has no open issue
NoUpsert ==
    /\ up_issues = <<>>
    /\ up_calls = <<>>

\* scripts/enable_automerge_all_repos.py is not running
NoAutomerge ==
    /\ am_pc = "idle"
    /\ am_force = FALSE
    /\ am_dry = FALSE
    /\ am_left = 0
    /\ am_log = <<>>

\* scripts/bulk_add_dependabot_codeql.py is not running
NoBulk ==
    /\ bf_pc = "idle"
    /\ bf_update = FALSE
    /\ bf_dry = FALSE
    /\ bf_left = 0
    /\ bf_log = <<>>

\* none of the later parts of the program runs
NothingElse ==
    /\ NoStandaloneCall /\ NoDomainCall /\ NoTriage /\ NoAutofix
    /\ NoRetry /\ NoPoll /\ NoUpsert /\ NoAutomerge /\ NoBulk

(***************************************************************************)
(* The client is built with some retry configuration; nothing is running.  *)
(***************************************************************************)
BackoffConfigs ==
    {<<DefaultBackoffBase, DefaultMaxBackoff>>, <<DefaultBackoffBase, 10>>, <<20, 10>>}

Init ==
    /\ BuiltByCaller
    /\ NoLinkParse
    /\ NothingElse
    /\ max_retries \in 0..MaxRetries
    /\ \E c \in BackoffConfigs : backoff_base_s = c[1] /\ max_backoff_s = c[2]
    /\ pc = "idle"
    /\ attempt = 0
    /\ last_err = NoError
    /\ url = <<>>
    /\ req_params = NoParams
    /\ hist = <<>>
    /\ result = Pending
    /\ calls = 0
    /\ prev = NoCall
    /\ pg_pc = "idle"
    /\ next_url = <<>>
    /\ params_local = NoParams
    /\ pg_resp = NoResponse
    /\ data = <<>>
    /\ item_ix = 0
    /\ yielded = <<>>
    /\ served = <<>>
    /\ pg_err = NoError

Next ==
    \/ request_call(ListPath, NoParams)
    \/ \E out \in Upstream : attempt_return(out)
    \/ \E out \in Upstream, now \in Clock : attempt_rate_limit(out, now)
    \/ \E out \in Upstream : attempt_network(out)
    \/ \E out \in Upstream : attempt_api_error(out)

Spec == Init /\ [][Next]_vars

\* paginate() on a client built with the default backoff
InitPaginate ==
    /\ Init
    /\ max_retries \in {0, 1}
    /\ backoff_base_s = DefaultBackoffBase
    /\ max_backoff_s = DefaultMaxBackoff

NextPaginate ==
    \/ \E path \in {ListPath, <<>>} : paginate_start(path, CallerParams)
    \/ \E out \in Upstream : attempt_return(out)
    \/ \E out \in Upstream, now \in Clock : attempt_rate_limit(out, now)
    \/ \E out \in Upstream : attempt_network(out)
    \/ \E out \in Upstream : attempt_api_error(out)
    \/ paginate_receive
    \/ paginate_yield
    \/ paginate_next_page
    \/ paginate_close

SpecPaginate == InitPaginate /\ [][NextPaginate]_vars

\* request() on a client built with the default configuration, or with the
\* default number of retries and another backoff, against an upstream that
\* fails transiently and recovers
RecoveryOutcomes ==
    TransientErrors \cup OkResponses
      \cup {NetworkFailure("Timeout"),
            Response(429, NoHeader, NumHeader(ClockStart), NotJson, <<>>),
            Response(404, NoHeader, NoHeader, JsonMessage(MsgNo), <<>>)}

InitRecovery ==
    /\ BuiltByCaller
    /\ NoLinkParse
    /\ NothingElse
    /\ max_retries \in {DefaultMaxRetries - 1, DefaultMaxRetries}
    /\ \E c \in BackoffConfigs : backoff_base_s = c[1] /\ max_backoff_s = c[2]
    /\ pc = "idle"
    /\ attempt = 0
    /\ last_err = NoError
    /\ url = <<>>
    /\ req_params = NoParams
    /\ hist = <<>>
    /\ result = Pending
    /\ calls = 0
    /\ prev = NoCall
    /\ pg_pc = "idle"
    /\ next_url = <<>>
    /\ params_local = NoParams
    /\ pg_resp = NoResponse
    /\ data = <<>>
    /\ item_ix = 0
    /\ yielded = <<>>
    /\ served = <<>>
    /\ pg_err = NoError

NextRecovery ==
    \/ pc = "idle" /\ request_call(ListPath, NoParams)
    \/ \E out \in RecoveryOutcomes : attempt_return(out)
    \/ \E out \in RecoveryOutcomes, now \in Clock : attempt_rate_limit(out, now)
    \/ \E out \in RecoveryOutcomes : attempt_network(out)
    \/ \E out \in RecoveryOutcomes : attempt_api_error(out)

SpecRecovery == InitRecovery /\ [][NextRecovery]_vars

\* create_clients() in some environment: the client it builds has the
\* default retry configuration (rest.py:28-30) and nothing runs on it
InitToken ==
    /\ NoLinkParse
    /\ NothingElse
    /\ env \in [GITHUB_TOKEN : EnvValues, GH_TOKEN : EnvValues]
    /\ hostname_for_gh \in Hostnames
    /\ cc_pc = "start"
    /\ token = NoStr
    /\ gh_runs = <<>>
    /\ proc = NoProc
    /\ rest_token = NoStr
    /\ max_retries = DefaultMaxRetries
    /\ backoff_base_s = DefaultBackoffBase
    /\ max_backoff_s = DefaultMaxBackoff
    /\ pc = "idle"
    /\ attempt = 0
    /\ last_err = NoError
    /\ url = <<>>
    /\ req_params = NoParams
    /\ hist = <<>>
    /\ result = Pending
    /\ calls = 0
    /\ prev = NoCall
    /\ pg_pc = "idle"
    /\ next_url = <<>>
    /\ params_local = NoParams
    /\ pg_resp = NoResponse
    /\ data = <<>>
    /\ item_ix = 0
    /\ yielded = <<>>
    /\ served = <<>>
    /\ pg_err = NoError

NextToken ==
    \/ create_clients_env
    \/ \E p \in GhOutcomes : create_clients_gh(p)

SpecToken == InitToken /\ [][NextToken]_vars

\* a client with the default configuration on which nothing runs
RestIdle ==
    /\ max_retries = DefaultMaxRetries
    /\ backoff_base_s = DefaultBackoffBase
    /\ max_backoff_s = DefaultMaxBackoff
    /\ pc = "idle"
    /\ attempt = 0
    /\ last_err = NoError
    /\ url = <<>>
    /\ req_params = NoParams
    /\ hist = <<>>
    /\ result = Pending
    /\ calls = 0
    /\ prev = NoCall
    /\ pg_pc = "idle"
    /\ next_url = <<>>
    /\ params_local = NoParams
    /\ pg_resp = NoResponse
    /\ data = <<>>
    /\ item_ix = 0
    /\ yielded = <<>>
    /\ served = <<>>
    /\ pg_err = NoError

\* parse_link_header() is called with the text of a header the upstream composed
InitLink ==
    /\ RestIdle
    /\ BuiltByCaller
    /\ NothingElse
    /\ \E ts \in TokenLists, sep \in Separators :
          /\ link_tokens = ts
          /\ lk_link = Join(ts, sep)
    /\ parts = <<>>
    /\ part_ix = 0
    /\ lk_out = EmptyMap
    /\ lk_pc = "start"

NextLink ==
    \/ parse_split
    \/ parse_part
    \/ parse_return

SpecLink == InitLink /\ [][NextLink]_vars

(***************************************************************************)
(* The standalone module code_scanning_api.py: its GitHubRestClient        *)
(* (103-237) has the same fields and helper functions as the package's,    *)
(* so the operators of rest.py and utils.py above stand for them too.      *)
(***************************************************************************)
\* code_scanning_api.py:132 and 199, the URL of a call: the base URL is put
\* before the argument, whatever it is
sa_build_url(path) == rstrip_slash(BaseUrl) \o path

\* code_scanning_api.py:132-135, request() is entered
SaEnterRequest(path, params) ==
    /\ sa_pc \in {"idle", "done"}
    /\ sa_url' = sa_build_url(path)
    /\ sa_params' = params
    /\ sa_last_err' = NoError
    /\ sa_hist' = <<>>
    /\ sa_calls' = <<>>
    /\ sa_attempt' = RangeStart(sa_attempt)
    /\ IF InRange(RangeStart(sa_attempt), max_retries)
       THEN sa_pc' = "loop" /\ sa_result' = Pending
       ELSE sa_pc' = "done" /\ sa_result' = AfterLoop(NoError)
    /\ UNCHANGED <<sa_resp, sa_data, sa_item_ix, sa_yielded, sa_pages>>

\* code_scanning_api.py:135-186, one iteration of the loop of request(): the
\* HTTP call is answered by o, and the try block and its handlers run
sa_request_step(o, now) ==
    /\ sa_pc = "loop"
    /\ LET h == Append(sa_hist, HttpEvent(o, sa_attempt))
           e == IF o.kind = "response" THEN RaisedFor(o) ELSE TransportError(o)
           Stop(r) ==
               /\ sa_hist' = h
               /\ sa_pc' = "done"
               /\ sa_result' = r
               /\ UNCHANGED sa_attempt
           Continue(why, dur, clock, lerr) ==
               LET nxt == LoopContinue(sa_attempt, max_retries, lerr)
               IN /\ sa_hist' = Append(h, SleepEvent(why, dur, sa_attempt, clock))
                  /\ sa_pc' = nxt.pc
                  /\ sa_attempt' = nxt.attempt
                  /\ sa_result' = nxt.result
       IN /\ sa_calls' = Append(sa_calls, <<sa_url, sa_params>>)
          /\ IF e.kind = "None"
             THEN Stop(Return(o)) /\ UNCHANGED sa_last_err
             ELSE IF e.kind = "GitHubRateLimitError"
             THEN /\ UNCHANGED sa_last_err
                  /\ IF ShortWait(e, now)
                     THEN Continue("rate_limit",
                                   (RateLimitWait(e.reset_epoch.val, now) + 1) * TenthsPerSecond,
                                   now, sa_last_err)
                     ELSE Stop(Raise(e))
             ELSE IF o.kind # "response"
             THEN /\ sa_last_err' = e
                  /\ IF BudgetSpent(sa_attempt, max_retries)
                     THEN Stop(Raise(e))
                     ELSE Continue("backoff",
                                   sleep_backoff(sa_attempt, backoff_base_s, max_backoff_s), 0, e)
             ELSE /\ sa_last_err' = e
                  /\ IF TransientStatus(e.status) /\ sa_attempt < max_retries
                     THEN Continue("backoff",
                                   sleep_backoff(sa_attempt, backoff_base_s, max_backoff_s), 0, e)
                     ELSE Stop(Raise(e))
    /\ UNCHANGED <<tw_op, tw_path, sa_url, sa_params, sa_resp, sa_data, sa_item_ix,
                   sa_yielded, sa_pages, outsideTwin>>

\* code_scanning_api.py:199-201, the consumer asks for the first item
SaEnterPaginate(path, params) ==
    /\ sa_pc = "idle"
    /\ sa_url' = sa_build_url(path)
    /\ sa_params' = params
    /\ sa_pc' = "get"
    /\ UNCHANGED <<sa_attempt, sa_last_err, sa_hist, sa_calls, sa_result, sa_resp, sa_data,
                   sa_item_ix, sa_yielded, sa_pages>>

\* code_scanning_api.py:202-208, session.get is answered by o: an exception
\* of the transport goes through, a status of 400 or more is raised by
\* _raise_for_status, and the body must be a JSON list
sa_paginate_get(o) ==
    /\ sa_pc = "get"
    /\ sa_hist' = Append(sa_hist, HttpEvent(o, 0))
    /\ sa_calls' = Append(sa_calls, <<sa_url, sa_params>>)
    /\ sa_pages' = sa_pages + 1
    /\ LET Fail(e) ==
               /\ sa_pc' = "done"
               /\ sa_result' = Raise(e)
               /\ UNCHANGED <<sa_resp, sa_data, sa_item_ix>>
       IN IF o.kind # "response"
          THEN Fail(TransportError(o))
          ELSE IF o.status_code >= 400
          THEN Fail(raise_for_status(o))
          ELSE IF o.body.json = "none"
          THEN Fail(Error("JSONDecodeError", 0, None, o))
          ELSE IF ~IsList(o.body)
          THEN Fail(Error("GitHubApiError", o.status_code, None, o))
          ELSE /\ sa_pc' = "for"
               /\ sa_resp' = o
               /\ sa_data' = o.body.items
               /\ sa_item_ix' = 0
               /\ UNCHANGED sa_result
    /\ UNCHANGED <<tw_op, tw_path, sa_attempt, sa_last_err, sa_url, sa_params, sa_yielded,
                   outsideTwin>>

\* code_scanning_api.py:210-211
sa_paginate_yield ==
    /\ sa_pc = "for"
    /\ ~ForLoopDone(sa_data, sa_item_ix)
    /\ sa_yielded' = Append(sa_yielded, NextItem(sa_data, sa_item_ix))
    /\ sa_item_ix' = sa_item_ix + 1
    /\ UNCHANGED <<tw_op, tw_path, sa_pc, sa_attempt, sa_last_err, sa_url, sa_params, sa_hist,
                   sa_calls, sa_result, sa_resp, sa_data, sa_pages, outsideTwin>>

\* code_scanning_api.py:213-220, the Link header gives the next URL or the
\* generator ends
sa_paginate_next ==
    /\ sa_pc = "for"
    /\ ForLoopDone(sa_data, sa_item_ix)
    /\ LET nxt == NextUrlOf(sa_resp)
       IN /\ Len(nxt) > 0 => sa_pages < MaxPages
          /\ IF Len(nxt) > 0
             THEN /\ sa_url' = nxt
                  /\ sa_params' = NoParams
                  /\ sa_pc' = "get"
                  /\ UNCHANGED sa_result
             ELSE /\ sa_pc' = "done"
                  /\ sa_result' = Return(NoResponse)
                  /\ UNCHANGED <<sa_url, sa_params>>
    /\ UNCHANGED <<tw_op, tw_path, sa_attempt, sa_last_err, sa_hist, sa_calls, sa_resp,
                   sa_data, sa_item_ix, sa_yielded, sa_pages, outsideTwin>>

(***************************************************************************)
(* The two clients side by side: the same operation with the same          *)
(* arguments on clients of the same configuration.  The upstream answers   *)
(* the package client as it likes; the standalone client is given the same *)
(* responses in the same order, its k-th HTTP call being answered as the   *)
(* k-th HTTP call of the package client was.                               *)
(***************************************************************************)
HttpOf(h) == SelectSeq(h, LAMBDA e : e.ev = "http")

\* request(): the answer to the next HTTP call of the standalone client,
\* once the package client has had it
FedToRequest ==
    LET got == HttpOf(hist)
        k == Len(HttpOf(sa_hist)) + 1
    IN IF tw_op = "request" /\ k <= Len(got) THEN {got[k].out} ELSE {}

\* paginate(): the standalone client makes one HTTP call per page, and it
\* asks for page k only after k - 1 pages that were answered with a list at
\* once, which the package client took at once as well: its k-th call is
\* answered as the first call of the package client's k-th page fetch
FedToPaginate ==
    IF tw_op = "paginate" /\ pg_pc = "fetch" /\ Len(served) = sa_pages /\ Len(hist) >= 1
    THEN {hist[1].out}
    ELSE {}

\* the standalone client has had the answer of this page fetch, or has ended
StandaloneKeepsUp == sa_pc = "done" \/ sa_pages > Len(served)

TwinPaths == {ListPath, NextPageUrl}

twin_request_call(path) ==
    /\ tw_op = "none"
    /\ tw_op' = "request"
    /\ tw_path' = path
    /\ pc = "idle"
    /\ pg_pc = "idle"
    /\ EnterRequest(path, CallerParams)
    /\ SaEnterRequest(path, CallerParams)
    /\ calls' = calls + 1
    /\ prev' = Summary
    /\ UNCHANGED <<clientVars, pageVars, factoryVars, linkVars, outsideRestTwin>>

twin_paginate_start(path) ==
    /\ tw_op = "none"
    /\ tw_op' = "paginate"
    /\ tw_path' = path
    /\ pc = "idle"
    /\ pg_pc = "idle"
    /\ next_url' = path
    /\ params_local' = CallerParams
    /\ EnterRequest(path, CallerParams)
    /\ pg_pc' = "fetch"
    /\ SaEnterPaginate(path, CallerParams)
    /\ UNCHANGED <<calls, prev, clientVars, pg_resp, data, item_ix, yielded, served, pg_err,
                   factoryVars, linkVars, outsideRestTwin>>

(***************************************************************************)
(* CodeScanningClient, code_scanning.py and code_scanning_api.py:280-370:  *)
(* the same text in both, on top of the REST client of its own module.     *)
(* Query parameters and JSON bodies are sequences of <<key, value>> in the *)
(* order the keys are set; str arguments are Optional[str] records.        *)
(***************************************************************************)
AlertsPath == <<"/repos/o/r/code-scanning/alerts">>
AlertPath == <<"/repos/o/r/code-scanning/alerts/7">>

\* code_scanning.py:37, min(max(per_page, 1), 100)
ClampPerPage(n) == Min(Max(n, 1), 100)

\* `if x:` for a str argument, and the entry it adds
With(kv, key, x) == IF Truthy(x) THEN Append(kv, <<key, x.val>>) ELSE kv
\* `if x is not None:`
WithGiven(kv, key, x) == IF x.some THEN Append(kv, <<key, x.val>>) ELSE kv

\* variant: the two tool filters are not checked against each other
BothTools_Unchecked(tool_name, tool_guid) == FALSE

\* code_scanning.py:29
BothTools(tool_name, tool_guid) == Truthy(tool_name) /\ Truthy(tool_guid)

\* code_scanning.py:73-74
MissingReason(state, dismissed_reason) == state = "dismissed" /\ ~Truthy(dismissed_reason)

\* code_scanning.py:33-50
ListParams(state, severity, tool_name, tool_guid, per_page) ==
    With(With(With(<<<<"state", state>>, <<"sort", "created">>, <<"direction", "desc">>,
                     <<"per_page", ClampPerPage(per_page)>>>>,
                   "severity", severity),
              "tool_name", tool_name),
         "tool_guid", tool_guid)

\* code_scanning.py:71-84
UpdateBody(state, dismissed_reason, dismissed_comment, create_request, assignees) ==
    LET b0 == <<<<"state", state>>>>
        b1 == IF state = "dismissed"
              THEN WithGiven(Append(b0, <<"dismissed_reason", dismissed_reason.val>>),
                             "dismissed_comment", dismissed_comment)
              ELSE b0
    IN WithGiven(WithGiven(b1, "create_request", create_request), "assignees", assignees)

\* the method raises ValueError
CsRaise(impl) ==
    /\ cs_impl' = impl
    /\ cs_pc' = "raised"
    /\ cs_err' = "ValueError"
    /\ cs_req' = NoReq
    /\ UNCHANGED <<restVars, twinVars>>

\* self.gh.request(method, path, json_body=body) on the client of the module
CsRequest(impl, method, path, body) ==
    /\ cs_impl' = impl
    /\ cs_pc' = "rest"
    /\ cs_req' = [method |-> method, path |-> path, params |-> NoParams, body |-> body]
    /\ UNCHANGED cs_err
    /\ IF impl = "package"
       THEN /\ pc = "idle"
            /\ pg_pc = "idle"
            /\ EnterRequest(path, NoParams)
            /\ calls' = calls + 1
            /\ prev' = Summary
            /\ UNCHANGED <<clientVars, pageVars, twinVars>>
       ELSE /\ SaEnterRequest(path, NoParams)
            /\ UNCHANGED <<tw_op, tw_path, restVars>>

\* self.gh.paginate(path, params=params), drained by list()
CsPaginate(impl, path, params) ==
    /\ cs_impl' = impl
    /\ cs_pc' = "rest"
    /\ cs_req' = [method |-> "GET", path |-> path, params |-> params, body |-> <<>>]
    /\ UNCHANGED cs_err
    /\ IF impl = "package"
       THEN /\ pc = "idle"
            /\ pg_pc = "idle"
            /\ next_url' = path
            /\ params_local' = params
            /\ EnterRequest(path, params)
            /\ pg_pc' = "fetch"
            /\ UNCHANGED <<calls, prev, clientVars, pg_resp, data, item_ix, yielded, served,
                           pg_err, twinVars>>
       ELSE /\ SaEnterPaginate(path, params)
            /\ UNCHANGED <<tw_op, tw_path, restVars>>

\* code_scanning.py:13-52
list_alerts_for_repo(impl, state, severity, tool_name, tool_guid, per_page) ==
    /\ cs_pc = "idle"
    /\ IF BothTools(tool_name, tool_guid)
       THEN CsRaise(impl)
       ELSE CsPaginate(impl, AlertsPath,
                       ListParams(state, severity, tool_name, tool_guid, per_page))
    /\ UNCHANGED outsideClients

\* code_scanning.py:58-86
update_alert(impl, state, dismissed_reason, dismissed_comment, create_request, assignees) ==
    /\ cs_pc = "idle"
    /\ IF MissingReason(state, dismissed_reason)
       THEN CsRaise(impl)
       ELSE CsRequest(impl, "PATCH", AlertPath,
                      UpdateBody(state, dismissed_reason, dismissed_comment, create_request,
                                 assignees))
    /\ UNCHANGED outsideClients

\* how the call on the REST client ended: "" while it runs, "None" when it
\* gave its response or its items, else the kind of the error it raised
RestEnd ==
    IF cs_impl = "package"
    THEN IF pg_pc \in {"done", "error"}
         THEN (IF pg_pc = "error" THEN pg_err.kind ELSE "None")
         ELSE IF pg_pc = "idle" /\ pc = "done"
         THEN (IF result.kind = "raise" THEN result.err.kind
               ELSE IF result.resp.body.json = "none" THEN "JSONDecodeError" ELSE "None")
         ELSE ""
    ELSE IF sa_pc = "done"
         THEN (IF sa_result.kind = "raise" THEN sa_result.err.kind
               ELSE IF cs_req.method = "PATCH" /\ sa_result.resp.body.json = "none"
               THEN "JSONDecodeError" ELSE "None")
         ELSE ""

\* code_scanning.py:52 and 86, the call on the REST client has ended: its
\* list or the JSON of its response is returned, or its error goes through
cs_finish ==
    /\ cs_pc = "rest"
    /\ RestEnd # ""
    /\ cs_pc' = IF RestEnd = "None" THEN "returned" ELSE "failed"
    /\ cs_err' = RestEnd
    /\ UNCHANGED <<cs_impl, cs_req, restVars, twinVars, outsideClients>>

StrArgs == {NoStr, Str(<<>>), Str(<<"x">>)}
Reasons == {NoStr, Str(<<>>), Str(<<"false positive">>)}
Assignees == {NoStr, Str(<<"u1">>)}
CreateRequests == {[some |-> FALSE, val |-> FALSE], [some |-> TRUE, val |-> FALSE]}
Impls == {"package", "standalone"}

\* what the upstream may answer to a call made for a CodeScanningClient
DomainOutcomes ==
    {Response(200, NoHeader, NoHeader, JsonList(<<"a">>), <<>>),
     Response(200, NoHeader, NoHeader, JsonList(<<"a", "b">>), <<LinkPart(NextPageUrl, "next")>>),
     Response(200, NoHeader, NoHeader, JsonObject, <<>>),
     Response(204, NoHeader, NoHeader, NotJson, <<>>),
     Response(503, NoHeader, NoHeader, NotJson, <<>>),
     Response(404, NoHeader, NoHeader, JsonMessage(MsgNo), <<>>),
     Response(429, NoHeader, NumHeader(ClockStart), NotJson, <<>>),
     NetworkFailure("Timeout")}

(***************************************************************************)
(* scripts/triage_and_act.py, main (144-336).  The rules file is the       *)
(* record of its switches; an alert is the record of what the script       *)
(* looks at: whether an allowlist entry matches it, whether an instance of *)
(* it has a path that CODEOWNERS gives users for, whether it is older than *)
(* its SLA.  The log holds the calls made on the clients, in order.        *)
(***************************************************************************)
MaxRepos == 2        \* repositories of the scope
MaxAlerts == 2       \* alerts of one repository

Call(method, what) == [method |-> method, what |-> what]

Alert(d, l, b) == [dismissable |-> d, located |-> l, breach |-> b]
AlertKinds ==
    {Alert(FALSE, FALSE, FALSE), Alert(TRUE, FALSE, TRUE), Alert(FALSE, TRUE, FALSE),
     Alert(TRUE, TRUE, TRUE)}

RECURSIVE SeqsUpTo(_, _)
SeqsUpTo(S, n) ==
    IF n = 0 THEN {<<>>}
    ELSE LET shorter == SeqsUpTo(S, n - 1)
         IN shorter \cup {Append(s, x) : s \in {t \in shorter : Len(t) = n - 1}, x \in S}

AlertLists == SeqsUpTo(AlertKinds, MaxAlerts)

RulesFiles ==
    [auto_dismiss : BOOLEAN, auto_assign : BOOLEAN, escalate : BOOLEAN, update_issue : BOOLEAN]

\* triage_and_act.py:144-179, the arguments and the rules file are read and
\* the repositories of the scope are listed
triage_start(dry_run, rules, repos) ==
    /\ tr_pc = "idle"
    /\ tr_dry' = dry_run
    /\ tr_rules' = rules
    /\ tr_repos' = repos
    /\ tr_log' = Append(tr_log, Call("GET", "list_repos"))
    /\ tr_pc' = "repos"
    /\ UNCHANGED <<tr_alerts, tr_owners, tr_counts, outsideTriage>>

\* triage_and_act.py:181-195, the next repository: its alerts are listed (a
\* repository without analysis is skipped, another error ends the script)
\* and its CODEOWNERS file is looked for
triage_repo(listed, alerts, owners) ==
    /\ tr_pc = "repos"
    /\ tr_repos > 0
    /\ tr_repos' = tr_repos - 1
    /\ IF listed = "ok"
       THEN /\ tr_log' = tr_log \o <<Call("GET", "list_alerts_for_repo"), Call("GET", "contents")>>
            /\ tr_alerts' = alerts
            /\ tr_owners' = owners
            /\ tr_pc' = "alerts"
       ELSE /\ tr_log' = Append(tr_log, Call("GET", "list_alerts_for_repo"))
            /\ tr_pc' = IF listed = "no_analysis" THEN "repos" ELSE "crashed"
            /\ UNCHANGED <<tr_alerts, tr_owners>>
    /\ UNCHANGED <<tr_dry, tr_rules, tr_counts, outsideTriage>>

\* triage_and_act.py:213-231, what the auto-dismiss block adds to the log
\* and to the count of dismissals
DismissBlock(a, ok) ==
    IF tr_rules.auto_dismiss /\ a.dismissable
    THEN IF tr_dry
         THEN [log |-> <<>>, n |-> 1]
         ELSE [log |-> <<Call("PATCH", "dismiss_alert")>>, n |-> IF ok THEN 1 ELSE 0]
    ELSE [log |-> <<>>, n |-> 0]

\* triage_and_act.py:234-260, the same for the auto-assign block
AssignBlock(a, instances_ok, ok) ==
    IF tr_rules.auto_assign
    THEN IF instances_ok /\ a.located /\ tr_owners
         THEN IF tr_dry
              THEN [log |-> <<Call("GET", "list_instances")>>, n |-> 1]
              ELSE [log |-> <<Call("GET", "list_instances"), Call("PATCH", "update_alert")>>,
                    n |-> IF ok THEN 1 ELSE 0]
         ELSE [log |-> <<Call("GET", "list_instances")>>, n |-> 0]
    ELSE [log |-> <<>>, n |-> 0]

\* triage_and_act.py:198-266, one iteration of the loop over the alerts
triage_alert(dismiss_ok, instances_ok, assign_ok) ==
    /\ tr_pc = "alerts"
    /\ Len(tr_alerts) > 0
    /\ LET a == Head(tr_alerts)
           d == DismissBlock(a, dismiss_ok)
           s == AssignBlock(a, instances_ok, assign_ok)
       IN /\ tr_log' = tr_log \o d.log \o s.log
          /\ tr_counts' =
                [assigned |-> tr_counts.assigned + s.n,
                 dismissed |-> tr_counts.dismissed + d.n,
                 escalated |-> tr_counts.escalated
                                 + IF tr_rules.escalate /\ a.breach THEN 1 ELSE 0]
    /\ tr_alerts' = Tail(tr_alerts)
    /\ UNCHANGED <<tr_pc, tr_dry, tr_rules, tr_repos, tr_owners, outsideTriage>>

\* triage_and_act.py:268-269 and 181, the alerts of the repository are done
triage_repo_done ==
    /\ tr_pc = "alerts"
    /\ Len(tr_alerts) = 0
    /\ tr_pc' = "repos"
    /\ UNCHANGED <<tr_dry, tr_rules, tr_repos, tr_alerts, tr_owners, tr_counts, tr_log,
                   outsideTriage>>

\* triage_and_act.py:127-134, upsert_issue: the open issues are listed and
\* the one with the title is updated, or a new one is created
upsert_issue(existing) ==
    <<Call("GET", "list_issues"),
      IF existing THEN Call("PATCH", "update_issue") ELSE Call("POST", "create_issue")>>

\* triage_and_act.py:271-336, the report is written, and sent to the issue
\* when the rules file asks for it
triage_report(existing) ==
    /\ tr_pc = "repos"
    /\ tr_repos = 0
    /\ tr_log' = IF tr_rules.update_issue THEN tr_log \o upsert_issue(existing) ELSE tr_log
    /\ tr_pc' = "done"
    /\ UNCHANGED <<tr_dry, tr_rules, tr_repos, tr_alerts, tr_owners, tr_counts, outsideTriage>>

(***************************************************************************)
(* scripts/autofix_campaign.py, main (146-284).  An alert is the id of its *)
(* rule ("" when it has none); the log holds the operations asked of the   *)
(* upstream, in order, one entry for a retry_call whatever the number of   *)
(* its tries.  An entry of the loop carries the number of its alert in the *)
(* run and the way the operation ended.                                    *)
(***************************************************************************)
MaxCap == 2          \* largest value of --max and of --max-prs
MaxListed == 3       \* alerts the upstream lists

Caps == -1..MaxCap
RuleIds == {"", "r1"}
ListedAlerts == SeqsUpTo(RuleIds, MaxListed)

\* autofix_campaign.py:146-185, the arguments are parsed, the open alerts
\* are listed and the default branch and its head are read
autofix_start(max, max_prs, dry_run, fail_fast, alerts) ==
    /\ au_pc = "idle"
    /\ au_max' = max
    /\ au_max_prs' = max_prs
    /\ au_dry' = dry_run
    /\ au_fail_fast' = fail_fast
    /\ au_alerts' = alerts
    /\ processed' = 0
    /\ opened_prs' = 0
    /\ unsupported_rules' = {}
    /\ au_log' = <<Call("GET", "list_alerts_for_repo"), Call("GET", "get_default_branch"),
                   Call("GET", "get_branch_sha")>>
    /\ au_pc' = "loop"
    /\ UNCHANGED outsideAutofix

\* variant: the caps are tested one alert too late
CapReached_Late(p, o) == p > au_max \/ o > au_max_prs

\* autofix_campaign.py:188-191, one of the two caps is reached
CapReached(p, o) == p >= au_max \/ o >= au_max_prs

\* autofix_campaign.py:187-191 and 284, the loop is left at a cap or at the
\* end of the list
autofix_leave ==
    /\ au_pc = "loop"
    /\ Len(au_alerts) = 0 \/ CapReached(processed, opened_prs)
    /\ au_pc' = "done"
    /\ UNCHANGED <<au_max, au_max_prs, au_dry, au_fail_fast, au_alerts, processed, opened_prs,
                   unsupported_rules, au_log, outsideAutofix>>

\* how one iteration ends: the calls it made, the pull request it opened or
\* counted, the rule it found unsupported, and `return 1`
Step(log, opened, rule, stop) == [log |-> log, opened |-> opened, rule |-> rule, stop |-> stop]

\* autofix_campaign.py:228-237, 263-267 and 279-282, the handler of a failed
\* call: `return 1` for a rate limit under --no-sleep-on-rate-limit
FailFast(outcome) == outcome = "rate_limit" /\ au_fail_fast

\* an operation the loop asked for alert n, and how it ended
Did(method, what, n, end) == [method |-> method, what |-> what, alert |-> n, end |-> end]

\* autofix_campaign.py:221-228, 256-263 and 270-279: retry_call came back
\* and no except clause ran.  It comes back with the value of fn ("ok"), and
\* also with None when its loop ran out on rate-limit errors ("exhausted",
\* autofix_campaign.py:104-112)
Returned(outcome) == outcome \in {"ok", "exhausted"}

\* autofix_campaign.py:195-282, the body of the loop for the n-th alert, of
\* rule rid
Body(n, rid, exists, autofix, ready, commit, pr) ==
    LET check == <<Did("GET", "pr_exists_for_head", n, exists)>>
        create == Append(check, Did("POST", "create_autofix", n, autofix))
        status == Append(create, Did("GET", "get_autofix_status", n,
                                     IF ready THEN "ready" ELSE "not_ready"))
        branch == Append(status, Did("POST", "create_branch", n, "ignored"))
        commits == Append(branch, Did("POST", "commit_autofix", n, commit))
        pulls == Append(commits, Did("POST", "create_pr", n, pr))
    IN IF rid # "" /\ rid \in unsupported_rules THEN Step(<<>>, 0, "", FALSE)
       ELSE IF exists = "yes" THEN Step(check, 0, "", FALSE)
       ELSE IF au_dry THEN Step(check, 1, "", FALSE)
       ELSE IF autofix = "unsupported" THEN Step(create, 0, rid, FALSE)
       ELSE IF ~Returned(autofix) THEN Step(create, 0, "", FailFast(autofix))
       ELSE IF ~ready THEN Step(status, 0, "", FALSE)
       ELSE IF ~Returned(commit) THEN Step(commits, 0, "", FailFast(commit))
       \* autofix_campaign.py:277, pr is None: pr.get raises AttributeError,
       \* which no except clause of main takes
       ELSE IF pr = "exhausted" THEN Step(pulls, 0, "", TRUE)
       ELSE IF pr # "ok" THEN Step(pulls, 0, "", FailFast(pr))
       ELSE Step(pulls, 1, "", FALSE)

\* autofix_campaign.py:187-282, one iteration of the loop over the alerts
autofix_alert(exists, autofix, ready, commit, pr) ==
    /\ au_pc = "loop"
    /\ Len(au_alerts) > 0
    /\ ~CapReached(processed, opened_prs)
    /\ LET s == Body(processed + 1, Head(au_alerts), exists, autofix, ready, commit, pr)
       IN /\ au_log' = au_log \o s.log
          /\ opened_prs' = opened_prs + s.opened
          /\ unsupported_rules' = IF s.rule # "" THEN unsupported_rules \cup {s.rule}
                                  ELSE unsupported_rules
          /\ au_pc' = IF s.stop THEN "stopped" ELSE "loop"
    /\ processed' = processed + 1
    /\ au_alerts' = Tail(au_alerts)
    /\ UNCHANGED <<au_max, au_max_prs, au_dry, au_fail_fast, outsideAutofix>>

Existence == {"yes", "no", "error"}
AutofixOutcomes == {"ok", "unsupported", "rate_limit", "error", "exhausted"}
CallOutcomes == {"ok", "rate_limit", "error", "exhausted"}

(***************************************************************************)
(* scripts/autofix_campaign.py, retry_call (103-120) and what it calls.    *)
(* An error is a GitHubApiError: its status and its message; texts are     *)
(* sequences of characters.  Delays are in seconds.                        *)
(***************************************************************************)
MaxRcRetries == 3    \* largest value of retries; main passes 1, 2 and 3
DefaultBaseDelay == 2

ApiError(status, message) == [some |-> TRUE, status |-> status, message |-> message]

Digit == <<"0", "1", "2", "3", "4", "5", "6", "7", "8", "9">>

\* the decimal text of a status of three digits
Decimal(n) == <<Digit[(n \div 100) + 1], Digit[((n \div 10) % 10) + 1], Digit[(n % 10) + 1]>>

\* exceptions.py:12, str(e): f"GitHub API error ({status}): {message}"
ErrorText(e) ==
    <<"G", "i", "t", "H", "u", "b", " ", "A", "P", "I", " ", "e", "r", "r", "o", "r", " ", "(">>
      \o Decimal(e.status) \o <<")", ":", " ">> \o e.message

\* rest.py:82 and 72, the messages of the two GitHubRateLimitErrors
MsgRateLimitExceeded ==
    <<"R", "a", "t", "e", " ", "l", "i", "m", "i", "t", " ", "e", "x", "c", "e", "e", "d", "e", "d", " ", "(", "4", "0", "3", ")", ".">>
MsgRateLimitHit ==
    <<"R", "a", "t", "e", " ", "l", "i", "m", "i", "t", " ", "h", "i", "t", " ", "(", "4", "2", "9", ")", ".">>
\* messages of the upstream, rest.py:156-160
MsgServerError == <<"S", "e", "r", "v", "e", "r", " ", "E", "r", "r", "o", "r">>
MsgNotFound == <<"N", "o", "t", " ", "F", "o", "u", "n", "d">>
MsgUnsupported == <<"n", "o", "t", " ", "s", "u", "p", "p", "o", "r", "t", "e", "d", " ", "b", "y", " ", "a", "u", "t", "o", "f", "i", "x">>

\* autofix_campaign.py:77-78
is_rate_limit_error(e) ==
    Contains(Lower(ErrorText(e)), <<"r", "a", "t", "e", " ", "l", "i", "m", "i", "t", " ", "e", "x", "c", "e", "e", "d", "e", "d">>)

\* autofix_campaign.py:82, getattr(e, "status_code", None); a GitHubApiError
\* has the attributes status, response_json and request_id (exceptions.py:13-15)
StatusCode(e) == IF "status_code" \in DOMAIN e THEN Some(e.status_code) ELSE None

\* variant: the test reads the attribute the exception has
is_transient_server_error_ByStatus(e) == e.status \in {500, 502, 503, 504}

\* autofix_campaign.py:81-87
is_transient_server_error(e) ==
    LET code == StatusCode(e)
        msg == Lower(ErrorText(e))
    IN \/ code.some /\ code.val \in {500, 502, 503, 504}
       \/ Contains(msg, <<"g", "i", "t", "h", "u", "b", " ", "a", "p", "i", " ", "e", "r", "r", "o", "r", " ", "(", "5", "0", "0", ")">>)
       \/ Contains(msg, <<"g", "i", "t", "h", "u", "b", " ", "a", "p", "i", " ", "e", "r", "r", "o", "r", " ", "(", "5", "0", "2", ")">>)
       \/ Contains(msg, <<"g", "i", "t", "h", "u", "b", " ", "a", "p", "i", " ", "e", "r", "r", "o", "r", " ", "(", "5", "0", "3", ")">>)

\* an entry of the history of retry_call
RcEvent(ev, a, e, dur) == [ev |-> ev, attempt |-> a, err |-> e, dur |-> dur]

\* autofix_campaign.py:103, retry_call is entered
retry_call_enter(retries, rest, sleep_on_rate_limit) ==
    /\ rc_pc = "idle"
    /\ rc_pc' = "try"
    /\ rc_attempt' = 0
    /\ rc_retries' = retries
    /\ rc_rest' = rest
    /\ rc_sleep_on' = sleep_on_rate_limit
    /\ rc_hist' = <<>>
    /\ rc_raised' = NoApiError
    /\ UNCHANGED outsideRetry

\* autofix_campaign.py:64-74, handle_rate_limit for what GET /rate_limit
\* answered: "go" is False at once, "slept" is False after the sleep until
\* the reset, "stop" is True, "error" is the GitHubApiError of the GET
handle_rate_limit(read, sleep_on_rate_limit) ==
    IF read = "error" THEN "error"
    ELSE IF read = "remaining" THEN "go"
    ELSE IF ~sleep_on_rate_limit THEN "stop"
    ELSE "slept"

\* autofix_campaign.py:104 and 112/118, `continue`: the next value of the
\* range, or the end of the for loop, after which the function ends
\* without a return statement
Continue(h) ==
    /\ rc_hist' = h
    /\ rc_raised' = NoApiError
    /\ IF rc_attempt < rc_retries
       THEN rc_attempt' = rc_attempt + 1 /\ rc_pc' = "try"
       ELSE rc_attempt' = rc_attempt /\ rc_pc' = "fell"

\* autofix_campaign.py:111 and 120, `raise`
Reraise(h, e) ==
    /\ rc_hist' = h
    /\ rc_raised' = e
    /\ rc_attempt' = rc_attempt
    /\ rc_pc' = "raised"

\* autofix_campaign.py:104-120, one pass of the for loop: fn ends as out,
\* and GET /rate_limit, when it is asked, answers read
retry_call(out, read) ==
    /\ rc_pc = "try"
    /\ LET called == Append(rc_hist, RcEvent("fn", rc_attempt, out, 0))
           limit == handle_rate_limit(read, rc_sleep_on)
           asked == Append(called, RcEvent("rate_limit", rc_attempt, NoApiError, 0))
           delay == DefaultBaseDelay * Pow2(rc_attempt)
       IN IF ~out.some
          THEN /\ rc_hist' = called
               /\ rc_pc' = "returned"
               /\ UNCHANGED <<rc_attempt, rc_raised>>
          ELSE IF is_rate_limit_error(out) /\ rc_rest
          THEN CASE limit = "error" ->
                      Reraise(asked, ApiError(500, MsgServerError))
                 [] limit = "stop" -> Reraise(asked, out)
                 [] limit = "go" -> Continue(asked)
                 [] limit = "slept" ->
                      Continue(Append(asked, RcEvent("reset_sleep", rc_attempt, NoApiError, 0)))
          ELSE IF is_transient_server_error(out) /\ rc_attempt < rc_retries
          THEN Continue(Append(called, RcEvent("sleep", rc_attempt, NoApiError, delay)))
          ELSE Reraise(called, out)
    /\ UNCHANGED <<rc_retries, rc_rest, rc_sleep_on, outsideRetry>>

\* how fn ends: its value, or an error the REST client raises
FnOutcomes ==
    {NoApiError, ApiError(403, MsgRateLimitExceeded), ApiError(429, MsgRateLimitHit),
     ApiError(404, MsgNotFound), ApiError(422, MsgUnsupported)}
      \cup {ApiError(s, MsgServerError) : s \in {500, 502, 503, 504}}

\* what GET /rate_limit answers: remaining > 0, remaining = 0, an error
RateLimitReads == {"remaining", "none_left", "error"}

(***************************************************************************)
(* scripts/autofix_campaign.py, wait_for_autofix_ready (123-143).  Time is *)
(* in seconds since `start`; a poll of the status endpoint takes some time *)
(* and ends as a 404, as another GitHubApiError, or with a body whose      *)
(* fields status and state are texts ("" also stands for an absent one).   *)
(***************************************************************************)
MaxTimeout == 30     \* largest value of timeout_s
MaxPollTime == 1     \* longest time one poll takes
PollInterval == 10

Timeouts == {-1, 0, 5, 20, MaxTimeout}

\* autofix_campaign.py:123-124, the function is entered and start is read
wait_for_autofix_ready_enter(timeout_s) ==
    /\ wf_pc = "idle"
    /\ wf_pc' = "loop"
    /\ wf_timeout' = timeout_s
    /\ wf_elapsed' = 0
    /\ wf_polls' = <<>>
    /\ UNCHANGED outsidePoll

\* autofix_campaign.py:135, (st.get("status") or st.get("state") or "").lower()
StatusOf(st) ==
    Lower(IF st.status # <<>> THEN st.status
          ELSE IF st.state # <<>> THEN st.state
          ELSE <<>>)

\* variant: every status that is not a failure counts as ready
IsReadyStatus_NotFailed(status) ==
    status \notin {<<"f", "a", "i", "l", "e", "d">>, <<"e", "r", "r", "o", "r">>}

\* autofix_campaign.py:136
IsReadyStatus(status) ==
    status \in {<<"r", "e", "a", "d", "y">>,
                <<"c", "o", "m", "p", "l", "e", "t", "e", "d">>,
                <<"c", "o", "m", "p", "l", "e", "t", "e">>,
                <<"s", "u", "c", "c", "e", "e", "d", "e", "d">>,
                <<"s", "u", "c", "c", "e", "s", "s">>}

\* autofix_campaign.py:138
IsFailedStatus(status) ==
    status \in {<<"f", "a", "i", "l", "e", "d">>, <<"e", "r", "r", "o", "r">>}

\* a poll: when it was made, how long it took, how it ended, the status read
Poll(at, took, kind, status) == [at |-> at, took |-> took, kind |-> kind, status |-> status]

\* autofix_campaign.py:125-141, one pass of the while loop: the time left
\* is tested, the status is read, and the function returns or sleeps
wait_for_autofix_ready(kind, st, took) ==
    /\ wf_pc = "loop"
    /\ wf_elapsed < wf_timeout
    /\ LET status == IF kind = "body" THEN StatusOf(st) ELSE <<>>
       IN /\ wf_polls' = Append(wf_polls, Poll(wf_elapsed, took, kind, status))
          /\ IF kind = "not_found"
             THEN wf_pc' = "false" /\ wf_elapsed' = wf_elapsed + took
             ELSE IF kind = "api_error"
             THEN wf_pc' = "loop" /\ wf_elapsed' = wf_elapsed + took + PollInterval
             ELSE IF IsReadyStatus(status)
             THEN wf_pc' = "true" /\ wf_elapsed' = wf_elapsed + took
             ELSE IF IsFailedStatus(status)
             THEN wf_pc' = "false" /\ wf_elapsed' = wf_elapsed + took
             ELSE wf_pc' = "loop" /\ wf_elapsed' = wf_elapsed + took + PollInterval
    /\ UNCHANGED <<wf_timeout, outsidePoll>>

\* autofix_campaign.py:125 and 143, the time is up
wait_for_autofix_ready_timeout ==
    /\ wf_pc = "loop"
    /\ ~(wf_elapsed < wf_timeout)
    /\ wf_pc' = "false"
    /\ UNCHANGED <<wf_timeout, wf_elapsed, wf_polls, outsidePoll>>

\* the texts a field of the status body holds
StatusTexts ==
    {<<>>, <<"r", "e", "a", "d", "y">>, <<"S", "u", "c", "c", "e", "s", "s">>,
     <<"f", "a", "i", "l", "e", "d">>, <<"E", "r", "r", "o", "r">>,
     <<"p", "e", "n", "d", "i", "n", "g">>}
StatusBodies == [status : StatusTexts, state : StatusTexts]
PollKinds == {"not_found", "api_error", "body"}

(***************************************************************************)
(* upsert_issue of scripts/triage_all_repos.py (103-115),                  *)
(* scripts/triage_and_act.py (127-134) and                                 *)
(* scripts/escalate_sla_to_issues.py (68-98).  The repository holds its    *)
(* open issues newest first, as GET /repos/{owner}/{repo}/issues lists     *)
(* them; the listing holds the open pull requests too, each with the key   *)
(* pull_request.  The title upserted is "T".                               *)
(***************************************************************************)
MaxIssues == 4       \* open issues and pull requests of the repository
IssuesPerPage == 2   \* per_page, 100 in the three scripts, scaled down

Issue(number, title, pr) == [number |-> number, title |-> title, pr |-> pr]

Scripts == {"triage_all_repos", "triage_and_act", "escalate_sla_to_issues"}

\* somebody opens an issue with another title, or a pull request
issue_opened(title, pr) ==
    /\ Len(up_issues) < MaxIssues
    /\ up_issues' = <<Issue(Len(up_issues) + 1, title, pr)>> \o up_issues
    /\ UNCHANGED <<up_calls, outsideUpsert>>

\* variant: escalate_sla_to_issues reads every page, as the other two do
Listed_AllPages(script) == up_issues

\* triage_all_repos.py:108 and triage_and_act.py:128, list(rest.paginate(...)):
\* every page; escalate_sla_to_issues.py:70-74, one rest.request: the first
\* page
Listed(script) ==
    IF script = "escalate_sla_to_issues"
    THEN SubSeq(up_issues, 1, Min(IssuesPerPage, Len(up_issues)))
    ELSE up_issues

\* triage_all_repos.py:109, triage_and_act.py:129: the title is equal;
\* escalate_sla_to_issues.py:79: and the item is no pull request
Matches(script, it) ==
    /\ it.title = "T"
    /\ script = "escalate_sla_to_issues" => ~it.pr

\* the first item listed that matches, 0 for None
Existing(script) ==
    LET listed == Listed(script)
        found == {i \in 1..Len(listed) : Matches(script, listed[i])}
    IN IF found = {} THEN 0
       ELSE listed[CHOOSE i \in found : \A j \in found : i <= j].number

\* a call of upsert_issue: the method and the number of the issue
IssueCall(method, number) == [method |-> method, number |-> number]

\* upsert_issue of one of the three scripts, as a whole
upsert(script) ==
    LET existing == Existing(script)
    IN IF existing # 0
       THEN /\ up_calls' = <<IssueCall("GET", 0), IssueCall("PATCH", existing)>>
            /\ up_issues' = up_issues
            /\ UNCHANGED outsideUpsert
       ELSE /\ Len(up_issues) < MaxIssues
            /\ up_calls' = <<IssueCall("GET", 0), IssueCall("POST", Len(up_issues) + 1)>>
            /\ up_issues' = <<Issue(Len(up_issues) + 1, "T", FALSE)>> \o up_issues
            /\ UNCHANGED outsideUpsert

(***************************************************************************)
(* scripts/enable_automerge_all_repos.py, main (203-286).  The log holds   *)
(* the calls made on the upstream for each repository, with the way each   *)
(* ended (the field alert of an entry is here the number of the            *)
(* repository); reading the protection ends as "protected" (200 and the    *)
(* protection object), "none" (404), "rate_limit" or "error".              *)
(***************************************************************************)
MaxMergeRepos == 2   \* repositories list_repos yields

\* enable_automerge_all_repos.py:213, action="store_true" with default=True
only_if_unprotected == TRUE

\* enable_automerge_all_repos.py:203-236, the arguments are parsed and the
\* repositories listed
automerge_start(force, dry_run, repos) ==
    /\ am_pc = "idle"
    /\ am_pc' = "loop"
    /\ am_force' = force
    /\ am_dry' = dry_run
    /\ am_left' = repos
    /\ am_log' = <<>>
    /\ UNCHANGED outsideMerge

\* enable_automerge_all_repos.py:97-101, get_branch_protection: the object,
\* None for a 404, any other error goes up
get_branch_protection(read) ==
    IF read = "protected" THEN [raised |-> FALSE, existing |-> TRUE]
    ELSE IF read = "none" THEN [raised |-> FALSE, existing |-> FALSE]
    ELSE [raised |-> TRUE, existing |-> FALSE]

\* variant: existing protection is never a reason to skip
SkipProtection_Never(existing, force) == FALSE

\* enable_automerge_all_repos.py:259
SkipProtection(existing, force) == existing /\ only_if_unprotected /\ ~force

\* enable_automerge_all_repos.py:243-281, the calls made for repository n
RepoCalls(n, settings, read, put) ==
    LET patch == IF am_dry THEN <<>> ELSE <<Did("PATCH", "update_repo_settings", n, settings)>>
        got == Append(patch, Did("GET", "get_branch_protection", n, read))
        checks == Append(got, Did("GET", "discover_required_checks", n, "ignored"))
        puts == IF am_dry THEN checks
                ELSE Append(checks, Did("PUT", "put_branch_protection", n, put))
        p == get_branch_protection(read)
    IN IF ~am_dry /\ settings # "ok" THEN patch
       ELSE IF p.raised THEN got
       ELSE IF SkipProtection(p.existing, am_force) THEN got
       ELSE puts

\* enable_automerge_all_repos.py:238-283, one pass of the loop over the
\* repositories
automerge_repo(settings, read, put) ==
    /\ am_pc = "loop"
    /\ am_left > 0
    /\ am_log' = am_log \o RepoCalls(am_left, settings, read, put)
    /\ am_left' = am_left - 1
    /\ UNCHANGED <<am_pc, am_force, am_dry, outsideMerge>>

\* enable_automerge_all_repos.py:285-286
automerge_done ==
    /\ am_pc = "loop"
    /\ am_left = 0
    /\ am_pc' = "done"
    /\ UNCHANGED <<am_force, am_dry, am_left, am_log, outsideMerge>>

ProtectionReads == {"protected", "none", "rate_limit", "error"}

(***************************************************************************)
(* scripts/bulk_add_dependabot_codeql.py, ensure_file (1208-1261) and      *)
(* put_file (308-374).  A file is on the target branch or not, and on the  *)
(* default branch or not; the upstream refuses a PUT without sha for a     *)
(* file that is on the branch written to (422, "sha" wasn't supplied).     *)
(* The log holds one entry for each ensure_file: whether the file is on    *)
(* the target branch, the PUTs sent (each carrying the blob SHA or not)    *)
(* and the value returned, "True" or "False", or "raised" for an exception  *)
(* that goes up.                                                           *)
(***************************************************************************)
MaxFiles == 3        \* files applied to a repository

\* bulk_add_dependabot_codeql.py:1346-1350 and 1400, the arguments are
\* parsed and the files of a repository are built
bulk_start(update_existing, dry_run, files) ==
    /\ bf_pc = "idle"
    /\ bf_pc' = "loop"
    /\ bf_update' = update_existing
    /\ bf_dry' = dry_run
    /\ bf_left' = files
    /\ bf_log' = <<>>
    /\ UNCHANGED outsideBulk

\* what a function gives back: the PUTs it sent and its value
Gave(puts, value) == [puts |-> puts, value |-> value]

\* a PUT on the contents of the file, with the field sha or without
Put(with_sha) == [sha |-> with_sha]

\* bulk_add_dependabot_codeql.py:276-296, get_file_sha on a ref where the
\* file is (there) or not: the SHA is found, or None comes back, or the gh
\* command fails with a RuntimeError
get_file_sha(there, lookup) ==
    IF lookup = "error" THEN "raised"
    ELSE IF there /\ lookup = "ok" THEN "sha"
    ELSE "none"

\* variant: a refused create is followed by the update whatever the switch
SkipExisting_Never(update_if_exists) == FALSE

\* bulk_add_dependabot_codeql.py:358-360
SkipExisting(update_if_exists) == ~update_if_exists

\* bulk_add_dependabot_codeql.py:308-374, put_file for a file that is on
\* the target branch (on_target) or not; resolved says whether the lookups
\* of lines 362-364 find the SHA, put how the first PUT ends when it is
\* not refused for a missing sha
put_file(on_target, sha_if_update, update_if_exists, dry_run, resolved, put) ==
    LET first == <<Put(sha_if_update)>>
    IN IF dry_run THEN Gave(<<>>, "True")
       ELSE IF ~sha_if_update /\ on_target
       THEN \* the PUT fails for another reason, or is refused with 422,
            \* "sha" wasn't supplied
            IF put = "error" THEN Gave(first, "raised")
            ELSE IF SkipExisting(update_if_exists) THEN Gave(first, "False")
            ELSE IF ~resolved THEN Gave(first, "raised")
            ELSE Gave(Append(first, Put(TRUE)), "True")
       ELSE IF put = "ok" THEN Gave(first, "True")
       ELSE Gave(first, "raised")

\* bulk_add_dependabot_codeql.py:1208-1261, ensure_file as a function of
\* the arguments and of what the upstream holds and answers
EnsureFile(on_target, on_default, branch_ok, lookup, resolved, put) ==
    LET there == IF bf_dry THEN on_default ELSE on_target
        found == get_file_sha(there, lookup)
        existing_sha == found = "sha"
        made == put_file(on_target, existing_sha, IF existing_sha THEN TRUE ELSE bf_update,
                         bf_dry, resolved, put)
    IN \* 1216, get_default_branch raises outside the try blocks
       IF bf_dry /\ ~branch_ok THEN Gave(<<>>, "raised")
       ELSE IF existing_sha /\ ~bf_update THEN Gave(<<>>, "False")
       ELSE IF made.value = "raised" THEN Gave(made.puts, "False")
       ELSE made

\* bulk_add_dependabot_codeql.py:1400-1415, ensure_file is called for the
\* next file
ensure_file(on_target, on_default, branch_ok, lookup, resolved, put) ==
    /\ bf_pc = "loop"
    /\ bf_left > 0
    /\ LET g == EnsureFile(on_target, on_default, branch_ok, lookup, resolved, put)
       IN bf_log' = Append(bf_log, [exists |-> on_target, puts |-> g.puts, result |-> g.value])
    /\ bf_left' = bf_left - 1
    /\ bf_pc' = IF bf_left = 1 THEN "done" ELSE "loop"
    /\ UNCHANGED <<bf_update, bf_dry, outsideBulk>>

Lookups == {"ok", "none", "error"}

(***************************************************************************)
(* The specifications of the later parts.                                  *)
(***************************************************************************)
\* the two REST clients are given the same call
InitTwin ==
    /\ InitPaginate

NextTwin ==
    \/ \E path \in TwinPaths : twin_request_call(path)
    \/ \E path \in TwinPaths : twin_paginate_start(path)
    \/ \E out \in Upstream : attempt_return(out)
    \/ \E out \in Upstream, now \in Clock : attempt_rate_limit(out, now)
    \/ \E out \in Upstream : attempt_network(out)
    \/ \E out \in Upstream : attempt_api_error(out)
    \/ StandaloneKeepsUp /\ paginate_receive
    \/ paginate_yield
    \/ paginate_next_page
    \/ \E o \in FedToRequest, now \in Clock : sa_request_step(o, now)
    \/ \E o \in FedToPaginate : sa_paginate_get(o)
    \/ sa_paginate_yield
    \/ sa_paginate_next

SpecTwin == InitTwin /\ [][NextTwin]_vars

\* a method of a CodeScanningClient of either module is called
InitDomain ==
    /\ InitPaginate

NextDomain ==
    \/ \E impl \in Impls, tool_name \in StrArgs, tool_guid \in StrArgs :
          list_alerts_for_repo(impl, "open", NoStr, tool_name, tool_guid, 100)
    \/ \E impl \in Impls, state \in {"open", "dismissed"}, reason \in Reasons,
          comment \in {NoStr, Str(<<"c">>)}, cr \in CreateRequests, asg \in Assignees :
          update_alert(impl, state, reason, comment, cr, asg)
    \/ \E out \in DomainOutcomes : attempt_return(out)
    \/ \E out \in DomainOutcomes, now \in Clock : attempt_rate_limit(out, now)
    \/ \E out \in DomainOutcomes : attempt_network(out)
    \/ \E out \in DomainOutcomes : attempt_api_error(out)
    \/ paginate_receive
    \/ paginate_yield
    \/ paginate_next_page
    \/ \E o \in DomainOutcomes, now \in Clock : sa_request_step(o, now)
    \/ \E o \in DomainOutcomes : sa_paginate_get(o)
    \/ sa_paginate_yield
    \/ sa_paginate_next
    \/ cs_finish

SpecDomain == InitDomain /\ [][NextDomain]_vars

\* scripts/triage_and_act.py is run
InitTriage ==
    /\ RestIdle
    /\ BuiltByCaller
    /\ NoLinkParse
    /\ NothingElse

NextTriage ==
    \/ \E dry_run \in BOOLEAN, rules \in RulesFiles, repos \in 0..MaxRepos :
          triage_start(dry_run, rules, repos)
    \/ \E listed \in {"ok", "no_analysis", "error"}, alerts \in AlertLists, owners \in BOOLEAN :
          triage_repo(listed, alerts, owners)
    \/ \E dismiss_ok \in BOOLEAN, instances_ok \in BOOLEAN, assign_ok \in BOOLEAN :
          triage_alert(dismiss_ok, instances_ok, assign_ok)
    \/ triage_repo_done
    \/ \E existing \in BOOLEAN : triage_report(existing)

SpecTriage == InitTriage /\ [][NextTriage]_vars

\* scripts/autofix_campaign.py is run
InitAutofix ==
    /\ RestIdle
    /\ BuiltByCaller
    /\ NoLinkParse
    /\ NothingElse

NextAutofix ==
    \/ \E max \in Caps, max_prs \in Caps, dry_run \in BOOLEAN, fail_fast \in BOOLEAN,
          alerts \in ListedAlerts :
          autofix_start(max, max_prs, dry_run, fail_fast, alerts)
    \/ autofix_leave
    \/ \E exists \in Existence, autofix \in AutofixOutcomes, ready \in BOOLEAN,
          commit \in CallOutcomes, pr \in CallOutcomes :
          autofix_alert(exists, autofix, ready, commit, pr)

SpecAutofix == InitAutofix /\ [][NextAutofix]_vars

\* retry_call of scripts/autofix_campaign.py is called
InitRetry ==
    /\ RestIdle
    /\ BuiltByCaller
    /\ NoLinkParse
    /\ NothingElse

NextRetry ==
    \/ \E retries \in 0..MaxRcRetries, rest \in BOOLEAN, sleep_on \in BOOLEAN :
          retry_call_enter(retries, rest, sleep_on)
    \/ \E out \in FnOutcomes, read \in RateLimitReads : retry_call(out, read)

SpecRetry == InitRetry /\ [][NextRetry]_vars

\* upsert_issue is called on a repository others open issues in
InitUpsert ==
    /\ RestIdle
    /\ BuiltByCaller
    /\ NoLinkParse
    /\ NothingElse

NextUpsert ==
    \/ \E pr \in BOOLEAN : issue_opened("other", pr)
    \/ issue_opened("T", TRUE)
    \/ \E script \in Scripts : upsert(script)

SpecUpsert == InitUpsert /\ [][NextUpsert]_vars

\* scripts/enable_automerge_all_repos.py is run
InitMerge ==
    /\ RestIdle
    /\ BuiltByCaller
    /\ NoLinkParse
    /\ NothingElse

NextMerge ==
    \/ \E force \in BOOLEAN, dry_run \in BOOLEAN, repos \in 0..MaxMergeRepos :
          automerge_start(force, dry_run, repos)
    \/ \E settings \in CallOutcomes, read \in ProtectionReads, put \in CallOutcomes :
          automerge_repo(settings, read, put)
    \/ automerge_done

SpecMerge == InitMerge /\ [][NextMerge]_vars

\* scripts/bulk_add_dependabot_codeql.py applies files to a repository
InitBulk ==
    /\ RestIdle
    /\ BuiltByCaller
    /\ NoLinkParse
    /\ NothingElse

NextBulk ==
    \/ \E update_existing \in BOOLEAN, dry_run \in BOOLEAN, files \in 1..MaxFiles :
          bulk_start(update_existing, dry_run, files)
    \/ \E on_target \in BOOLEAN, on_default \in BOOLEAN, branch_ok \in BOOLEAN,
          lookup \in Lookups, resolved \in BOOLEAN, put \in {"ok", "error"} :
          ensure_file(on_target, on_default, branch_ok, lookup, resolved, put)

SpecBulk == InitBulk /\ [][NextBulk]_vars

\* wait_for_autofix_ready of scripts/autofix_campaign.py is called
InitPoll ==
    /\ RestIdle
    /\ BuiltByCaller
    /\ NoLinkParse
    /\ NothingElse

NextPoll ==
    \/ \E timeout_s \in Timeouts : wait_for_autofix_ready_enter(timeout_s)
    \/ \E kind \in PollKinds, st \in StatusBodies, took \in 0..MaxPollTime :
          wait_for_autofix_ready(kind, st, took)
    \/ wait_for_autofix_ready_timeout

\* the function is a sequential loop: a step that can be taken is taken
SpecPoll == InitPoll /\ [][NextPoll]_vars /\ WF_vars(NextPoll)

(***************************************************************************)
(* Vocabulary of the properties of request().                              *)
(***************************************************************************)
HttpIx == {i \in 1..Len(hist) : hist[i].ev = "http"}
SleepIx == {i \in 1..Len(hist) : hist[i].ev = "sleep"}
BackoffIx == {i \in SleepIx : hist[i].why = "backoff"}
RateSleepIx == {i \in SleepIx : hist[i].why = "rate_limit"}

IsHttp(e) == e.ev = "http"
IsBackoff(e) == e.ev = "sleep" /\ e.why = "backoff"
BackoffDelays == SelectSeq(hist, IsBackoff)

Is5xxTransient(o) == o.kind = "response" /\ o.status_code \in {500, 502, 503, 504}
IsNetwork(o) == o.kind \in {"Timeout", "ConnectionError"}

\* the rate-limit marks of a 403 response, as the specification words them
HasRateLimitMark(o) ==
    \/ o.remaining = NumHeader(0)
    \/ o.body.json = "dict" /\ o.body.has_message
         /\ \E m \in {MsgApiRateLimit, MsgUpperRateLimit} : o.body.message = m

IsRateLimitCase(o) ==
    /\ o.kind = "response"
    /\ o.status_code = 429 \/ (o.status_code = 403 /\ HasRateLimitMark(o))

All5xx == \A i \in HttpIx : Is5xxTransient(hist[i].out)
AllNetwork == \A i \in HttpIx : IsNetwork(hist[i].out)

\* C2: one call of request() issues at most max_retries + 1 HTTP calls,
\* whatever the upstream answers.
C2_AttemptBound == Cardinality(HttpIx) <= max_retries + 1

C2_Witness ==
    /\ pc = "done"
    /\ max_retries >= 2
    /\ Cardinality(HttpIx) = max_retries + 1
    /\ \E i \in HttpIx : Is5xxTransient(hist[i].out)
    /\ \E i \in HttpIx : IsRateLimitCase(hist[i].out)
    /\ \E i \in HttpIx : IsNetwork(hist[i].out)

\* C3: a short-wait rate-limit retry is free: the step of request() that
\* sleeps for a rate limit leaves the retry budget as it was, that is the
\* call stays in the loop with the same attempt index.
C3_ShortWaitIsFree ==
    [][(Len(hist') = Len(hist) + 2 /\ hist'[Len(hist')].why = "rate_limit")
         => (pc' = "loop" /\ attempt' = attempt)]_vars

\* C4: a call of request() ends by returning a response with status < 400 or
\* by raising one of the four API errors or a Timeout/ConnectionError from
\* inside the loop; the code after the loop is never reached.
C4_ClosedOutcomes ==
    pc = "done" =>
        /\ result.at # "after_loop"
        /\ \/ result.kind = "return" /\ result.resp.status_code < 400
           \/ result.kind = "raise"
                /\ result.err.kind \in ApiErrorKinds \cup {"Timeout", "ConnectionError"}

\* the reset epoch a response discloses, as the specification words it
Disclosed(o) == o.reset.present /\ o.reset.digits
WaitFor(o, now) == IF o.reset.val > now THEN o.reset.val - now ELSE 0

\* the response of event i was answered by a rate-limit sleep of the length
\* the reset header gives
Slept(i) ==
    /\ i + 1 <= Len(hist)
    /\ hist[i + 1].ev = "sleep"
    /\ hist[i + 1].why = "rate_limit"
    /\ hist[i + 1].dur = (WaitFor(hist[i].out, hist[i + 1].now) + 1) * TenthsPerSecond

\* ... and the call then went on to another HTTP attempt
Retried(i) ==
    \/ pc = "loop" /\ i + 1 = Len(hist)
    \/ i + 2 <= Len(hist) /\ hist[i + 2].ev = "http"

\* the response of event i made the call raise GitHubRateLimitError at once
PropagatedRateLimit(i) ==
    /\ i = Len(hist)
    /\ pc = "done"
    /\ result.kind = "raise"
    /\ result.at = "handler"
    /\ result.err.kind = "GitHubRateLimitError"
    /\ result.err.status = hist[i].out.status_code
    /\ result.err.reset_epoch =
         IF Disclosed(hist[i].out) THEN Some(hist[i].out.reset.val) ELSE None

ShortReset(o) == Disclosed(o) /\ WaitFor(o, ClockStart) <= ShortWaitLimit

\* C5: every 429 whose reset is disclosed and at most 15 seconds away is
\* answered by a sleep and an automatic retry, the caller seeing no error for
\* it; every other 429 makes the call raise GitHubRateLimitError at once.
C5_Decision429 ==
    \A i \in HttpIx :
        (hist[i].out.kind = "response" /\ hist[i].out.status_code = 429) =>
            IF ShortReset(hist[i].out)
            THEN Slept(i) /\ Retried(i)
            ELSE PropagatedRateLimit(i)

\* what request() does with a rate-limit response, worded without its status:
\* sleep as the reset header says and move to the next iteration of the loop
\* (or leave the loop when there is none), or raise at once
HandledAsRateLimit(i) ==
    IF ShortReset(hist[i].out)
    THEN /\ Slept(i)
         /\ hist[i + 1].attempt = hist[i].attempt
         /\ IF i + 2 <= Len(hist)
            THEN hist[i + 2].ev = "http" /\ hist[i + 2].attempt = hist[i].attempt + 1
            ELSE \/ pc = "loop" /\ attempt = hist[i].attempt + 1
                 \/ pc = "done" /\ result.at = "after_loop" /\ hist[i].attempt = max_retries
    ELSE PropagatedRateLimit(i)

\* C6: a 403 with a rate-limit mark is handled as a 429 with the same
\* X-RateLimit-Reset header is (same sleep, or same GitHubRateLimitError with
\* the same reset_epoch); a 403 with neither mark raises a plain
\* GitHubApiError at once.
C6_Forbidden403 ==
    \A i \in HttpIx :
        LET o == hist[i].out IN
        /\ (o.kind = "response" /\ o.status_code = 429) => HandledAsRateLimit(i)
        /\ (o.kind = "response" /\ o.status_code = 403) =>
              IF HasRateLimitMark(o)
              THEN HandledAsRateLimit(i)
              ELSE /\ i = Len(hist)
                   /\ pc = "done"
                   /\ result.kind = "raise"
                   /\ result.at = "handler"
                   /\ result.err.kind = "GitHubApiError"
                   /\ result.err.status = 403

C6_Witness ==
    /\ pc = "done"
    /\ result.err.kind = "GitHubRateLimitError"
    /\ result.err.status = 403
    /\ \E i, j \in HttpIx :
         /\ hist[i].out.status_code = 403
         /\ hist[i].out.body.json = "dict"
         /\ hist[j].out.status_code = 429
         /\ hist[i].out.reset = hist[j].out.reset
         /\ i + 1 \in RateSleepIx
         /\ j + 1 \in RateSleepIx

\* C7: when every attempt of a call gets a 500, 502, 503 or 504, the call
\* makes max_retries + 1 HTTP calls with one backoff sleep between each two,
\* and raises GitHubApiError with the status of the last response; no such
\* status is raised before the last attempt of the loop.
C7_PersistentServerErrors ==
    /\ (pc = "done" /\ HttpIx # {} /\ All5xx) =>
          /\ Cardinality(HttpIx) = max_retries + 1
          /\ Cardinality(BackoffIx) = max_retries
          /\ Len(hist) = 2 * max_retries + 1
          /\ \A i \in 1..Len(hist) : (i \in HttpIx) = (i % 2 = 1)
          /\ result.kind = "raise"
          /\ result.err.kind = "GitHubApiError"
          /\ result.err.status = hist[Len(hist)].out.status_code
          /\ result.err.request_id = hist[Len(hist)].out.request_id
    /\ (pc = "done" /\ result.kind = "raise"
          /\ result.err.status \in {500, 502, 503, 504})
          => Cardinality(HttpIx) = max_retries + 1

C7_Witness ==
    /\ pc = "done"
    /\ max_retries = 2
    /\ All5xx
    /\ Len(hist) = 5
    /\ hist[1].out.status_code = 504
    /\ hist[3].out.status_code = 502
    /\ result.err.status = 500

\* C8 as claimed: in a call that sees only 5xx responses the successive
\* backoff delays are strictly increasing.
C8_StrictlyIncreasing ==
    All5xx =>
        \A i, j \in 1..Len(BackoffDelays) :
            i < j => BackoffDelays[i].dur < BackoffDelays[j].dur

\* C8 (amended): in a call that sees only 5xx responses the backoff delays
\* never decrease: the first is backoff_base_s capped at max_backoff_s, each
\* later one is the double of the previous one capped at max_backoff_s, and
\* a delay equals the previous one only at 0 or at the cap.
C8_DoublingCapped ==
    All5xx =>
        /\ Len(BackoffDelays) >= 1 =>
              BackoffDelays[1].dur = Min(max_backoff_s, backoff_base_s)
        /\ \A i \in 2..Len(BackoffDelays) :
              /\ BackoffDelays[i].dur = Min(max_backoff_s, 2 * BackoffDelays[i - 1].dur)
              /\ BackoffDelays[i].dur >= BackoffDelays[i - 1].dur
              /\ BackoffDelays[i].dur = BackoffDelays[i - 1].dur
                    => BackoffDelays[i].dur \in {0, max_backoff_s}

C8_Witness ==
    /\ All5xx
    /\ Len(BackoffDelays) = 2
    /\ BackoffDelays[1].dur < max_backoff_s
    /\ BackoffDelays[2].dur = max_backoff_s
    /\ 2 * BackoffDelays[1].dur > max_backoff_s

\* C9: a response with status >= 400 that is neither 500, 502, 503, 504 nor
\* a rate-limit case ends the call: request() raises for it on the spot, with
\* no sleep and no HTTP call after it.
C9_NonTransientOnce ==
    \A i \in HttpIx :
        LET o == hist[i].out IN
        (o.kind = "response" /\ o.status_code >= 400
           /\ ~Is5xxTransient(o) /\ ~IsRateLimitCase(o)) =>
            /\ i = Len(hist)
            /\ pc = "done"
            /\ result.kind = "raise"
            /\ result.at = "handler"
            /\ result.err.status = o.status_code
            /\ result.err.request_id = o.request_id
            /\ \A j \in HttpIx : j < i => hist[j].out.status_code # o.status_code
                                           \/ IsRateLimitCase(hist[j].out)

C9_Witness ==
    /\ pc = "done"
    /\ attempt < max_retries
    /\ Len(hist) >= 3
    /\ hist[Len(hist)].out.status_code = 501
    /\ result.err.status = 501

\* C10: a Timeout or ConnectionError in iteration a < max_retries is followed
\* by a sleep of min(max_backoff_s, backoff_base_s * 2^a) and a retry; in the
\* last iteration it is raised; so a call whose max_retries + 1 attempts all
\* fail at network level raises the failure of the last attempt.
C10_NetworkRetry ==
    /\ \A i \in HttpIx :
          IsNetwork(hist[i].out) =>
             IF hist[i].attempt < max_retries
             THEN /\ i + 1 <= Len(hist)
                  /\ hist[i + 1].ev = "sleep"
                  /\ hist[i + 1].why = "backoff"
                  /\ hist[i + 1].dur =
                        Min(max_backoff_s, backoff_base_s * Pow2(hist[i].attempt))
                  /\ Retried(i)
             ELSE /\ i = Len(hist)
                  /\ pc = "done"
                  /\ result.kind = "raise"
                  /\ result.err.kind = hist[i].out.kind
    /\ (pc = "done" /\ AllNetwork /\ HttpIx # {}) =>
          /\ Cardinality(HttpIx) = max_retries + 1
          /\ result.kind = "raise"
          /\ result.err.kind = hist[Len(hist)].out.kind

C10_Witness ==
    /\ pc = "done"
    /\ max_retries = 2
    /\ AllNetwork
    /\ Len(hist) = 5
    /\ hist[1].out.kind = "ConnectionError"
    /\ hist[5].out.kind = "Timeout"
    /\ hist[4].dur = max_backoff_s
    /\ hist[2].dur < hist[4].dur
    /\ result.err.kind = "Timeout"

(***************************************************************************)
(* Vocabulary of the properties of paginate().                             *)
(***************************************************************************)
\* the items of the first n pages served, page after page
RECURSIVE ConcatPages(_)
ConcatPages(n) ==
    IF n = 0 THEN <<>> ELSE ConcatPages(n - 1) \o served[n].resp.body.items

\* the `next` relation of a Link header, read off its parts: the URL of the
\* last part of the right form whose relation is "next"
HasNext(link) == \E i \in 1..Len(link) : link[i].wf /\ link[i].rel = "next"
NextRel(link) ==
    link[CHOOSE i \in 1..Len(link) :
            /\ link[i].wf /\ link[i].rel = "next"
            /\ \A j \in (i + 1)..Len(link) : ~(link[j].wf /\ link[j].rel = "next")].url

AllLists == \A k \in 1..Len(served) : served[k].resp.body.json = "list"

\* the pages served form a chain: each one was requested at the `next` URL
\* of the one before
Chained ==
    \A k \in 1..(Len(served) - 1) :
        HasNext(served[k].resp.link) /\ served[k + 1].url = NextRel(served[k].resp.link)

Only5xxBeforeLast ==
    \A i \in HttpIx : i < Len(hist) => Is5xxTransient(hist[i].out)

\* C11: when a call gets k consecutive 5xx responses and then a response
\* with status < 400, it returns that response after exactly k sleeps, all
\* backoff sleeps, of min(max_backoff_s, backoff_base_s * 2^i) for
\* i = 0..k-1; with the defaults and k = 3 they are 0.8 s, 1.6 s, 3.2 s.
C11_Recovery ==
    (/\ Len(hist) >= 1
     /\ hist[Len(hist)].ev = "http"
     /\ hist[Len(hist)].out.kind = "response"
     /\ hist[Len(hist)].out.status_code < 400
     /\ Only5xxBeforeLast) =>
        LET k == Cardinality(HttpIx) - 1 IN
        /\ k <= max_retries
        /\ pc = "done"
        /\ result.kind = "return"
        /\ result.resp = hist[Len(hist)].out
        /\ Len(hist) = 2 * k + 1
        /\ Len(BackoffDelays) = k
        /\ \A i \in 1..k :
              BackoffDelays[i].dur = Min(max_backoff_s, backoff_base_s * Pow2(i - 1))
        /\ (k = 3 /\ backoff_base_s = 8 /\ max_backoff_s = 100) =>
              <<BackoffDelays[1].dur, BackoffDelays[2].dur, BackoffDelays[3].dur>>
                 = <<8, 16, 32>>

C11_Witness ==
    /\ pc = "done"
    /\ max_retries = 4
    /\ backoff_base_s = 8
    /\ max_backoff_s = 100
    /\ Len(hist) = 7
    /\ \A i \in {1, 3, 5} : hist[i].out.status_code = 503
    /\ \A i \in {2, 4, 6} : hist[i].why = "backoff"
    /\ <<hist[2].dur, hist[4].dur, hist[6].dur>> = <<8, 16, 32>>
    /\ result.kind = "return"
    /\ result.resp.status_code = 200

\* the error kind the classification rules give a response, "None" for a
\* response that is returned
ExpectedKind(o) ==
    IF o.status_code = 429 THEN "GitHubRateLimitError"
    ELSE IF o.status_code = 403 /\ HasRateLimitMark(o) THEN "GitHubRateLimitError"
    ELSE IF o.status_code = 401 THEN "GitHubAuthError"
    ELSE IF o.status_code = 404 THEN "GitHubNotFoundError"
    ELSE IF o.status_code >= 400 THEN "GitHubApiError"
    ELSE "None"

\* C12: the response of the latest HTTP call raises exactly the error kind
\* the rules give it, with its status: seen in the error the call ends with,
\* in last_err when the error is retried with backoff, and in the rate-limit
\* sleep when a GitHubRateLimitError is waited out; a response below 400
\* raises nothing and is returned.
C12_Classification ==
    \A i \in HttpIx :
        (hist[i].out.kind = "response" /\ i >= Len(hist) - 1) =>
            LET o == hist[i].out
                kind == ExpectedKind(o)
            IN IF kind = "None"
               THEN i = Len(hist) /\ pc = "done" /\ result.kind = "return"
                      /\ result.err = NoError
               ELSE IF i = Len(hist)
               THEN /\ pc = "done"
                    /\ result.kind = "raise"
                    /\ result.at = "handler"
                    /\ result.err.kind = kind
                    /\ result.err.status = o.status_code
               ELSE IF kind = "GitHubRateLimitError"
               THEN hist[i + 1].why = "rate_limit"
               ELSE /\ hist[i + 1].why = "backoff"
                    /\ last_err.kind = kind
                    /\ last_err.status = o.status_code

C12_Witness ==
    /\ pc = "done"
    /\ Len(hist) >= 3
    /\ hist[Len(hist)].out.status_code = 401
    /\ hist[Len(hist)].out.remaining = NumHeader(0)
    /\ result.err.kind = "GitHubAuthError"
    /\ \E i \in HttpIx : hist[i].out.status_code = 403 /\ i + 1 \in RateSleepIx

\* the last HTTP call of the running call
LastHttp == CHOOSE i \in HttpIx : \A j \in HttpIx : j <= i

\* C13: the error a call raises describes its last attempt: the kind, status,
\* payload and request id of the last response received, or the network
\* failure of the last HTTP call.
C13_ErrorOfLastAttempt ==
    (pc = "done" /\ result.kind = "raise") =>
        /\ HttpIx # {}
        /\ LET o == hist[LastHttp].out IN
           IF IsNetwork(o)
           THEN result.err.kind = o.kind
           ELSE /\ result.err.kind = ExpectedKind(o)
                /\ result.err.status = o.status_code
                /\ result.err.response_json = o.body
                /\ result.err.request_id = o.request_id

\* C14: a response with status < 400 ends the call: it is the last thing
\* the call did, and the call returns that very response, whatever failed
\* before it.
C14_SuccessShortCircuits ==
    \A i \in HttpIx :
        (hist[i].out.kind = "response" /\ hist[i].out.status_code < 400) =>
            /\ i = Len(hist)
            /\ pc = "done"
            /\ result.kind = "return"
            /\ result.at = "try"
            /\ result.resp = hist[i].out

C14_Witness ==
    /\ pc = "done"
    /\ result.kind = "return"
    /\ result.resp.status_code = 204
    /\ Len(hist) = 5
    /\ IsNetwork(hist[1].out)
    /\ IsRateLimitCase(hist[3].out)
    /\ last_err.kind = "Timeout"

\* C15: every rate-limit sleep follows a rate-limit response whose reset is
\* disclosed and at most 15 seconds away, and lasts max(0, reset - now) + 1
\* seconds: between 1 and 16 seconds, and 1 second when the reset is past.
C15_RateLimitSleepShort ==
    \A i \in RateSleepIx :
        /\ i >= 2
        /\ hist[i - 1].ev = "http"
        /\ IsRateLimitCase(hist[i - 1].out)
        /\ Disclosed(hist[i - 1].out)
        /\ LET reset == hist[i - 1].out.reset.val
               now == hist[i].now
               wait == IF reset - now > 0 THEN reset - now ELSE 0
           IN /\ reset - now <= ShortWaitLimit
              /\ hist[i].dur = (wait + 1) * TenthsPerSecond
              /\ hist[i].dur >= TenthsPerSecond
              /\ hist[i].dur <= (ShortWaitLimit + 1) * TenthsPerSecond
              /\ reset <= now => hist[i].dur = TenthsPerSecond

C15_Witness ==
    /\ Len(hist) >= 4
    /\ {2, 4} \subseteq RateSleepIx
    /\ hist[2].dur = TenthsPerSecond
    /\ hist[4].dur = (ShortWaitLimit + 1) * TenthsPerSecond
    /\ hist[1].out.status_code = 429
    /\ hist[3].out.status_code = 403

(***************************************************************************)
(* Pages that are no list, the URL and parameters of each page request,    *)
(* and the order of yields and fetches.                                    *)
(***************************************************************************)
\* a request() call is running or has ended without paginate() taking its result
RequestInFlight == pc # "idle"

\* C16: when the k-th page served has a JSON body that is no list, paginate()
\* has yielded exactly the elements of pages 1..k-1 (nothing for k = 1) and
\* has raised a GitHubApiError carrying that body as response_json; page k is
\* the last page fetched.
C16_StructuralError ==
    \A k \in 1..Len(served) :
        served[k].resp.body.json = "dict" =>
            /\ k = Len(served)
            /\ ~RequestInFlight
            /\ pg_pc = "error"
            /\ pg_err.kind = "GitHubApiError"
            /\ pg_err.status = served[k].resp.status_code
            /\ pg_err.response_json = served[k].resp.body
            /\ pg_err.request_id = served[k].resp.request_id
            /\ yielded = ConcatPages(k - 1)

C16_Witness ==
    /\ pg_pc = "error"
    /\ Len(served) = 3
    /\ served[3].resp.body.json = "dict"
    /\ HasNext(served[3].resp.link)
    /\ yielded = <<"a", "b", "a">>

\* C17: the first page request goes to base_url + path with the caller's
\* params; every later page request goes to the `next` URL of the page
\* before it, as it stands, with no params.  This holds for the pages served
\* and for the request that is running.
C17_CursorReplacesParams ==
    /\ \A k \in 1..Len(served) :
          IF k = 1
          THEN /\ served[k].url = BaseUrl \o ListPath
               /\ served[k].params = CallerParams
          ELSE /\ served[k].url = NextRel(served[k - 1].resp.link)
               /\ served[k].params = NoParams
    /\ (pg_pc = "fetch" /\ RequestInFlight) =>
          IF Len(served) = 0
          THEN /\ url = BaseUrl \o ListPath
               /\ req_params = CallerParams
          ELSE /\ url = NextRel(served[Len(served)].resp.link)
               /\ req_params = NoParams

C17_Witness ==
    /\ Len(served) = 3
    /\ served[1].params = CallerParams
    /\ served[2].url = LastPageUrl
    /\ served[3].url = NextPageUrl
    /\ served[3].params = NoParams

\* a step of paginate() in page order: a request begins at the start of the
\* generator or when a page is exhausted and all of it has been yielded; a
\* generator the consumer has closed does nothing more
LazyStep ==
    /\ (~RequestInFlight /\ RequestInFlight') =>
          \/ pg_pc = "idle" /\ served = <<>>
          \/ /\ pg_pc = "for"
             /\ item_ix = Len(data)
             /\ yielded = ConcatPages(Len(served))
    /\ Len(hist') > Len(hist) => pg_pc = "fetch"
    /\ pg_pc = "closed" => UNCHANGED <<callVars, pageVars>>

\* C18: the request for page k+1 is issued only after every element of page
\* k (and of the pages before it) has been yielded, and a consumer that has
\* stopped iterating causes no further request.
C18_LazyOrder == [][LazyStep]_vars

C18_Witness ==
    /\ pg_pc = "closed"
    /\ Len(served) = 2
    /\ Len(data) = 2
    /\ item_ix = 1
    /\ HasNext(pg_resp.link)
    /\ Len(yielded) = 3

(***************************************************************************)
(* Token resolution.                                                       *)
(***************************************************************************)
\* the variable is set and not the empty string
NonEmpty(x) == x.some /\ x.val # <<>>

AllWhitespace(s) == \A k \in 1..Len(s) : s[k] \in Whitespace

\* t is s without the whitespace at its two ends
IsStripOf(t, s) ==
    /\ Len(t) > 0 => (t[1] \notin Whitespace /\ t[Len(t)] \notin Whitespace)
    /\ \E i \in 0..Len(s) :
          /\ i + Len(t) <= Len(s)
          /\ SubSeq(s, i + 1, i + Len(t)) = t
          /\ AllWhitespace(SubSeq(s, 1, i))
          /\ AllWhitespace(SubSeq(s, i + Len(t) + 1, Len(s)))

Ended == cc_pc \in {"built", "failed"}

\* C19: a non-empty GITHUB_TOKEN is the token of the client built, whatever
\* GH_TOKEN is; with GITHUB_TOKEN absent or empty a non-empty GH_TOKEN is;
\* in both cases no subprocess is run.  The subprocess is run only when both
\* are absent or empty, with the hostname given, and the token of a client
\* built then is its standard output without the whitespace at its ends.
C19_ResolutionOrder ==
    /\ (Ended /\ NonEmpty(env.GITHUB_TOKEN)) =>
          /\ cc_pc = "built"
          /\ rest_token = env.GITHUB_TOKEN
          /\ gh_runs = <<>>
    /\ (Ended /\ ~NonEmpty(env.GITHUB_TOKEN) /\ NonEmpty(env.GH_TOKEN)) =>
          /\ cc_pc = "built"
          /\ rest_token = env.GH_TOKEN
          /\ gh_runs = <<>>
    /\ gh_runs # <<>> =>
          /\ ~NonEmpty(env.GITHUB_TOKEN)
          /\ ~NonEmpty(env.GH_TOKEN)
          /\ gh_runs = <<hostname_for_gh>>
    /\ (cc_pc = "built" /\ gh_runs # <<>>) =>
          /\ proc.kind = "exit"
          /\ proc.code = 0
          /\ rest_token.some
          /\ IsStripOf(rest_token.val, proc.stdout)

C19_Witness ==
    /\ cc_pc = "built"
    /\ env.GITHUB_TOKEN = Str(<<>>)
    /\ env.GH_TOKEN = NoStr
    /\ gh_runs = <<"ghe.example.com">>
    /\ Len(proc.stdout) > Len(rest_token.val) + 3
    /\ rest_token.val = TokenA \o <<" ">> \o TokenB

\* the subprocess gave no token: it exited non-zero, was missing, raised, or
\* printed nothing but whitespace
GhFailed(p) ==
    \/ p.kind \in {"missing", "error"}
    \/ p.kind = "exit" /\ (p.code # 0 \/ AllWhitespace(p.stdout))

\* C20: when both variables are absent or empty and the subprocess gives no
\* token, create_clients() raises and no client is built, and the subprocess
\* has been run exactly once; the subprocess is never run a second time.
C20_FatalNoRetry ==
    /\ (Ended /\ ~NonEmpty(env.GITHUB_TOKEN) /\ ~NonEmpty(env.GH_TOKEN) /\ GhFailed(proc)) =>
          /\ cc_pc = "failed"
          /\ rest_token = NoStr
          /\ ~Truthy(token)
          /\ Len(gh_runs) = 1
    /\ cc_pc = "failed" => GhFailed(proc)
    /\ Len(gh_runs) <= 1

C20_Witness ==
    /\ cc_pc = "failed"
    /\ env.GH_TOKEN = Str(<<>>)
    /\ proc.kind = "exit"
    /\ proc.code = 1
    /\ proc.stdout # <<>>
    /\ Len(gh_runs) = 1

(***************************************************************************)
(* Link header parsing.                                                    *)
(***************************************************************************)
GoodIx(ts) == {i \in 1..Len(ts) : ts[i].shape = "good"}

\* the mapping a list of tokens stands for: each relation name of a token of
\* the form <url>; rel="name" to the URL of the last such token of that name
MappingOf(ts) ==
    [r \in {ts[i].rel : i \in GoodIx(ts)} |->
        ts[CHOOSE i \in GoodIx(ts) :
              /\ ts[i].rel = r
              /\ \A j \in GoodIx(ts) : ts[j].rel = r => j <= i].url]

\* C21: parse_link_header returns, for a header of comma-separated tokens,
\* the mapping from each relation name to its URL for the tokens of the form
\* <url>; rel="name" (any whitespace around the semicolon) and skips the
\* tokens of another form; an empty header and a header with no token of
\* that form give the empty mapping.
C21_LinkParsing ==
    lk_pc = "done" =>
        /\ lk_out = MappingOf(link_tokens)
        /\ GoodIx(link_tokens) = {} => lk_out = EmptyMap

\* the same for headers whose URLs hold no comma
CommaFreeLinkParsing ==
    (lk_pc = "done" /\ \A i \in 1..Len(link_tokens) : link_tokens[i].url # UrlComma) =>
        lk_out = MappingOf(link_tokens)

(***************************************************************************)
(* Independence of the calls made on one client.                           *)
(***************************************************************************)
HttpBefore(i) == Cardinality({j \in HttpIx : j < i})

\* the running call counts its attempts from 0 and its backoff delays are
\* those of its own attempts
LocalCounter ==
    /\ \A i \in HttpIx : hist[i].attempt = HttpBefore(i)
    /\ \A i \in BackoffIx :
          hist[i].dur = Min(max_backoff_s, backoff_base_s * Pow2(HttpBefore(i) - 1))
    /\ Cardinality(BackoffIx) < max_retries =>
          ~(pc = "done" /\ result.kind = "raise" /\ result.at = "handler"
              /\ (Is5xxTransient(hist[Len(hist)].out) \/ IsNetwork(hist[Len(hist)].out))
              /\ RateSleepIx = {})

NoCarryStep ==
    /\ UNCHANGED <<max_retries, backoff_base_s, max_backoff_s, rest_token>>
    /\ calls' = calls + 1 => (attempt' = 0 /\ last_err' = NoError /\ hist' = <<>>)
    /\ LocalCounter'

\* C22: no step of a call changes the client's fields; every call starts
\* with its attempt counter at 0 and no recorded error, counts its own
\* attempts only, and has the full retry budget and the backoff delays of
\* its own attempts, whatever the calls before it did.
C22_NoCarriedState == [][NoCarryStep]_vars

C22_Witness ==
    /\ calls = 2
    /\ prev = [http |-> MaxRetries + 1, raised |-> TRUE]
    /\ max_retries = MaxRetries
    /\ pc = "done"
    /\ Cardinality(HttpIx) = MaxRetries + 1
    /\ Cardinality(BackoffIx) = MaxRetries
    /\ hist[2].dur = backoff_base_s

(***************************************************************************)
(* The end of a paginated sequence.                                        *)
(***************************************************************************)
LastServed == served[Len(served)].resp

BackoffRetried(i) ==
    /\ i + 1 <= Len(hist)
    /\ hist[i + 1].ev = "sleep"
    /\ hist[i + 1].why = "backoff"
    /\ hist[i + 1].dur = Min(max_backoff_s, backoff_base_s * Pow2(hist[i].attempt))
    /\ Retried(i)

\* the items yielded are those of the pages served, each page once
YieldedOnce ==
    /\ pg_pc \in {"for", "closed"} =>
          yielded = ConcatPages(Len(served) - 1) \o SubSeq(data, 1, item_ix)
    /\ (pg_pc \in {"fetch", "done", "error"} /\ AllLists) =>
          yielded = ConcatPages(Len(served))

\* C24: in the fetch of any page, a 5xx response or network failure with
\* retries left is answered by a backoff sleep and another attempt, and a
\* rate-limit response with a short wait by a sleep and another attempt; the
\* page returned is the response of the last attempt, and the items yielded
\* are those of the pages served, each once.
C24_FetchThroughRequest ==
    /\ pg_pc = "fetch" =>
          /\ \A i \in HttpIx :
                LET o == hist[i].out IN
                /\ ((Is5xxTransient(o) \/ IsNetwork(o)) /\ hist[i].attempt < max_retries) =>
                      BackoffRetried(i)
                /\ (IsRateLimitCase(o) /\ ShortReset(o)) => (Slept(i) /\ Retried(i))
          /\ (pc = "done" /\ result.kind = "return") => result.resp = hist[Len(hist)].out
    /\ YieldedOnce

\* the same, a rate-limit wait in the last iteration of the loop left aside
FetchThroughRequestButLastSlot ==
    /\ pg_pc = "fetch" =>
          /\ \A i \in HttpIx :
                LET o == hist[i].out IN
                /\ ((Is5xxTransient(o) \/ IsNetwork(o)) /\ hist[i].attempt < max_retries) =>
                      BackoffRetried(i)
                /\ (IsRateLimitCase(o) /\ ShortReset(o) /\ hist[i].attempt < max_retries) =>
                      (Slept(i) /\ Retried(i))
          /\ (pc = "done" /\ result.kind = "return") => result.resp = hist[Len(hist)].out
    /\ YieldedOnce


\* C25: every sleep of request() is followed by another HTTP attempt of the
\* same call: a finished call does not have a sleep as its last event, and
\* the event after a sleep is an HTTP attempt.
C25_SleepThenRetry ==
    /\ \A i \in SleepIx : i < Len(hist) => hist[i + 1].ev = "http"
    /\ pc = "done" => (Len(hist) = 0 \/ hist[Len(hist)].ev # "sleep")

\* the same for backoff sleeps alone
BackoffSleepThenRetry ==
    /\ \A i \in SleepIx : i < Len(hist) => hist[i + 1].ev = "http"
    /\ pc = "done" => (Len(hist) = 0 \/ Len(hist) \notin BackoffIx)

\* C26: network failures and 5xx responses share one budget: a call makes
\* at most max_retries backoff sleeps whatever the mix of the two, and no
\* backoff sleep is longer than max_backoff_s.
C26_SharedBudget ==
    /\ Cardinality(BackoffIx) <= max_retries
    /\ \A i \in BackoffIx :
          /\ hist[i].dur <= max_backoff_s
          /\ Is5xxTransient(hist[i - 1].out) \/ IsNetwork(hist[i - 1].out)

\* a call that spent its whole budget on a mix of the two kinds of failure,
\* one of its sleeps held down to max_backoff_s
C26_Witness ==
    /\ pc = "done"
    /\ max_retries >= 2
    /\ Cardinality(BackoffIx) = max_retries
    /\ \E i \in BackoffIx : Is5xxTransient(hist[i - 1].out)
    /\ \E i \in BackoffIx : IsNetwork(hist[i - 1].out)
    /\ \E i \in BackoffIx :
          /\ hist[i].dur = max_backoff_s
          /\ backoff_base_s * Pow2(hist[i].attempt) > max_backoff_s


(***************************************************************************)
(* The standalone module against the package.                              *)
(***************************************************************************)
SameOutcome(r, s) == r.kind = s.kind /\ r.resp = s.resp /\ r.err = s.err

\* the two request() calls have ended
BothRequested == tw_op = "request" /\ pc = "done" /\ sa_pc = "done"

SameRequest ==
    /\ sa_hist = hist
    /\ \A i \in 1..Len(sa_calls) : sa_calls[i] = <<url, req_params>>
    /\ SameOutcome(result, sa_result)

\* C27: given the same sequence of upstream responses, request() and
\* paginate() of the standalone module and of the package make the same HTTP
\* calls and the same sleeps and end the same way: same response returned or
\* same kind of error raised, same items yielded.
C27_SameClient ==
    /\ BothRequested => SameRequest
    /\ (tw_op = "paginate" /\ pg_pc = "fetch" /\ pc = "done" /\ sa_pages = Len(served) + 1) =>
          /\ hist = <<sa_hist[Len(sa_hist)]>>
          /\ sa_calls[Len(sa_calls)] = <<url, req_params>>
    /\ (tw_op = "paginate" /\ pg_pc \in {"done", "error"} /\ sa_pc = "done") =>
          /\ sa_yielded = yielded
          /\ (sa_result.kind = "raise") = (pg_pc = "error")
          /\ pg_pc = "error" => sa_result.err.kind = pg_err.kind

\* what the two do have in common: request() with a path
SameRequestOnPath == (BothRequested /\ ~is_absolute_url(tw_path)) => SameRequest

\* the two request() calls of a path have ended after a retry
SameRequestOnPathReached ==
    /\ BothRequested
    /\ ~is_absolute_url(tw_path)
    /\ Len(hist) >= 3


(***************************************************************************)
(* Validation in the domain client.                                        *)
(***************************************************************************)
\* nothing was asked of either REST client
NoRestCall ==
    /\ pc = "idle"
    /\ pg_pc = "idle"
    /\ calls = 0
    /\ hist = <<>>
    /\ sa_pc = "idle"
    /\ sa_hist = <<>>
    /\ sa_calls = <<>>
    /\ cs_req = NoReq

RaisedValueError == cs_pc' = "raised" /\ cs_err' = "ValueError" /\ UNCHANGED <<restVars, twinVars>>

\* a step of update_alert with state 'dismissed' and no dismissed_reason, or
\* of list_alerts_for_repo with both tool filters, raises ValueError
InvalidCallRaises ==
    /\ \A impl \in Impls, reason \in {NoStr, Str(<<>>)}, comment \in {NoStr, Str(<<"c">>)},
          cr \in CreateRequests, asg \in Assignees :
          update_alert(impl, "dismissed", reason, comment, cr, asg) => RaisedValueError
    /\ \A impl \in Impls :
          list_alerts_for_repo(impl, "open", NoStr, Str(<<"x">>), Str(<<"x">>), 100)
             => RaisedValueError

\* C28: update_alert with state 'dismissed' and no dismissed_reason, and
\* list_alerts_for_repo with both tool_name and tool_guid, raise ValueError,
\* and where a method has raised ValueError nothing was asked of the REST
\* client, in the package and in the standalone module alike.
C28_ValidationFirst ==
    /\ [](cs_pc = "raised" => (cs_err = "ValueError" /\ NoRestCall))
    /\ [][InvalidCallRaises]_vars

\* a method of the package's client has raised
C28_Witness == cs_pc = "raised" /\ cs_impl = "package" /\ cs_err = "ValueError"


(***************************************************************************)
(* The scripts.                                                            *)
(***************************************************************************)
Writes(log) == {i \in 1..Len(log) : log[i].method \in {"PATCH", "POST"}}

\* C29: with --dry-run, triage_and_act.py makes no PATCH and no POST call:
\* no alert is dismissed or assigned and no issue is created or updated.
C29_DryRunChangesNothing == tr_dry => Writes(tr_log) = {}

\* what a dry run does leave alone: the alerts
DryRunLeavesAlerts ==
    tr_dry => \A i \in 1..Len(tr_log) : tr_log[i].what \notin {"dismiss_alert", "update_alert"}

\* a dry run that counted a dismissal and an assignment it would make
DryRunLeavesAlertsReached ==
    /\ tr_dry
    /\ tr_pc = "done"
    /\ tr_counts.dismissed > 0
    /\ tr_counts.assigned > 0


Started == au_pc # "idle"

\* in a dry run nothing is asked to be created
DryRunCreatesNothing ==
    au_dry => \A i \in 1..Len(au_log) :
                 au_log[i].what \notin {"create_autofix", "create_branch", "commit_autofix",
                                        "create_pr"}

\* C30 as stated: at every point of a run of autofix_campaign.py the number
\* of alerts taken is at most --max and the number of pull requests opened
\* or counted is at most --max-prs, and a dry run asks for no autofix,
\* branch, commit or pull request.
C30_Caps ==
    /\ Started => (processed <= au_max /\ opened_prs <= au_max_prs)
    /\ DryRunCreatesNothing

\* C30: the same with the caps read as counts: a negative --max or
\* --max-prs stands for 0, no alert being taken then.
C30_CapsAsCounts ==
    /\ Started => (processed <= Max(0, au_max) /\ opened_prs <= Max(0, au_max_prs))
    /\ Started => opened_prs <= processed
    /\ (Started /\ (au_max <= 0 \/ au_max_prs <= 0)) => (processed = 0 /\ Len(au_log) = 3)
    /\ DryRunCreatesNothing

\* a run that opened as many pull requests as both caps allow and left the
\* rest of the list alone
C30_Witness ==
    /\ au_pc = "done"
    /\ ~au_dry
    /\ au_max = MaxCap
    /\ processed = au_max
    /\ opened_prs = au_max_prs
    /\ Len(au_alerts) > 0


(***************************************************************************)
(* The order of the steps of autofix_campaign.py for one alert.            *)
(***************************************************************************)
\* the entries of the log for operation what on the n-th alert
EntriesOf(what, n) ==
    {i \in 1..Len(au_log) : au_log[i].what = what /\ au_log[i].alert = n}

\* entry i of the log is operation what on the n-th alert and ended as end
EndedAs(i, what, n, end) ==
    /\ au_log[i].what = what
    /\ au_log[i].alert = n
    /\ au_log[i].end = end

\* before entry i the three steps were made for the n-th alert in the order
\* create_autofix, get_autofix_status, commit_autofix, and each succeeded
ThreeStepsBefore(i, n) ==
    \E a, s, c \in 1..Len(au_log) :
        /\ a < s /\ s < c /\ c < i
        /\ EndedAs(a, "create_autofix", n, "ok")
        /\ EndedAs(s, "get_autofix_status", n, "ready")
        /\ EndedAs(c, "commit_autofix", n, "ok")

\* C31: a pull request is asked for an alert only after create_autofix
\* succeeded for it, then wait_for_autofix_ready returned True, then
\* commit_autofix succeeded; and no create_autofix is asked for an alert
\* whose existence check answered that its head branch has an open pull
\* request
C31_StepOrder ==
    \A n \in 1..processed :
        /\ \A i \in EntriesOf("create_pr", n) : ThreeStepsBefore(i, n)
        /\ (\E i \in EntriesOf("pr_exists_for_head", n) : au_log[i].end = "yes")
              => EntriesOf("create_autofix", n) = {}

\* the part of C31 that stands: a pull request is asked for an alert only
\* after the three steps were asked for it in order, create_autofix and
\* commit_autofix ended without an exception and the poll ended ready; and
\* an alert found to have an open pull request gets no create_autofix
StepOrderOfCalls ==
    \A n \in 1..processed :
        /\ \A i \in EntriesOf("create_pr", n) :
              \E a, s, c \in 1..Len(au_log) :
                  /\ a < s /\ s < c /\ c < i
                  /\ au_log[a].what = "create_autofix" /\ au_log[a].alert = n
                  /\ Returned(au_log[a].end)
                  /\ EndedAs(s, "get_autofix_status", n, "ready")
                  /\ au_log[c].what = "commit_autofix" /\ au_log[c].alert = n
                  /\ Returned(au_log[c].end)
        /\ (\E i \in EntriesOf("pr_exists_for_head", n) : au_log[i].end = "yes")
              => EntriesOf("create_autofix", n) = {}

\* a pull request was asked for an alert
StepOrderOfCallsReached ==
    \E n \in 1..processed : EntriesOf("create_pr", n) # {}




(***************************************************************************)
(* The ends of retry_call.                                                 *)
(***************************************************************************)
\* the calls of fn retry_call made
FnCalls == {i \in 1..Len(rc_hist) : rc_hist[i].ev = "fn"}

\* retry_call has ended
RetryEnded == rc_pc \in {"returned", "raised", "fell"}

\* retry_call returned the value of a call of fn that succeeded
ReturnedValueOfFn ==
    /\ rc_pc = "returned"
    /\ Len(rc_hist) > 0
    /\ rc_hist[Len(rc_hist)].ev = "fn"
    /\ ~rc_hist[Len(rc_hist)].err.some

\* retry_call raised the error of a call of fn that failed
RaisedErrorOfFn ==
    /\ rc_pc = "raised"
    /\ rc_raised.some
    /\ \E i \in FnCalls : rc_hist[i].err = rc_raised

\* C32: retry_call ends by returning the value of a call of fn that
\* succeeded or by raising the GitHubApiError of a call of fn that failed;
\* it never returns without fn having succeeded
C32_TwoEnds == RetryEnded => ReturnedValueOfFn \/ RaisedErrorOfFn

\* the part of C32 that stands: called without a REST client, retry_call
\* ends in one of the two ways
TwoEndsWithoutRest == RetryEnded /\ ~rc_rest => ReturnedValueOfFn \/ RaisedErrorOfFn

\* retry_call ended without a REST client after more than one call of fn
TwoEndsWithoutRestReached == RetryEnded /\ ~rc_rest /\ Len(rc_hist) > 2

(***************************************************************************)
(* The errors retry_call retries.                                          *)
(***************************************************************************)
\* the call of fn at entry i of the history failed with e on attempt a and
\* retry_call slept base_delay * 2^a after it and did not raise e
SleptAndWentOn(i, a) ==
    /\ i < Len(rc_hist)
    /\ rc_hist[i + 1] = RcEvent("sleep", a, NoApiError, DefaultBaseDelay * Pow2(a))
    /\ ~(rc_pc = "raised" /\ i = Len(rc_hist) - 1)

\* the call of fn at entry i of the history failed with e and retry_call
\* raised e at once
RaisedAtOnce(i, e) ==
    /\ i = Len(rc_hist)
    /\ rc_pc = "raised"
    /\ rc_raised = e

\* C33: a call of fn that fails with status 500, 502, 503 or 504 while
\* retries are left is followed by a sleep of base_delay * 2^attempt and
\* another try; any other error that is not a rate-limit error is raised
\* at its first occurrence
C33_TransientRetried ==
    \A i \in FnCalls :
        LET e == rc_hist[i].err
            a == rc_hist[i].attempt
        IN e.some /\ ~is_rate_limit_error(e) =>
              IF e.status \in {500, 502, 503, 504} /\ a < rc_retries
              THEN SleptAndWentOn(i, a)
              ELSE RaisedAtOnce(i, e)

\* the part of C33 that stands: the same for the statuses 500, 502 and 503,
\* a 504 being raised at once like a 404
TransientRetriedBut504 ==
    \A i \in FnCalls :
        LET e == rc_hist[i].err
            a == rc_hist[i].attempt
        IN e.some /\ ~is_rate_limit_error(e) =>
              IF e.status \in {500, 502, 503} /\ a < rc_retries
              THEN SleptAndWentOn(i, a)
              ELSE RaisedAtOnce(i, e)

\* a 503 was retried after the sleep of the second attempt
TransientRetriedBut504Reached ==
    \E i \in FnCalls :
        /\ rc_hist[i].err.some
        /\ rc_hist[i].err.status = 503
        /\ rc_hist[i].attempt = 1
        /\ SleptAndWentOn(i, 1)
        /\ i + 1 < Len(rc_hist)


(***************************************************************************)
(* The polling of wait_for_autofix_ready.                                  *)
(***************************************************************************)
\* the statuses the claim counts as ready, and as failed
ClaimedReady ==
    {<<"r", "e", "a", "d", "y">>,
     <<"c", "o", "m", "p", "l", "e", "t", "e", "d">>,
     <<"c", "o", "m", "p", "l", "e", "t", "e">>,
     <<"s", "u", "c", "c", "e", "e", "d", "e", "d">>,
     <<"s", "u", "c", "c", "e", "s", "s">>}
ClaimedFailed == {<<"f", "a", "i", "l", "e", "d">>, <<"e", "r", "r", "o", "r">>}

\* poll i got a 404 or read a failed status
EndsInFalse(i) ==
    \/ wf_polls[i].kind = "not_found"
    \/ wf_polls[i].kind = "body" /\ wf_polls[i].status \in ClaimedFailed

\* poll i read a ready status
EndsInTrue(i) == wf_polls[i].kind = "body" /\ wf_polls[i].status \in ClaimedReady

\* True is returned only at a poll that read a ready status
TrueOnlyWhenReady ==
    wf_pc = "true" => Len(wf_polls) > 0 /\ EndsInTrue(Len(wf_polls))

\* a poll that got a 404 or a failed status is the last one, and False is
\* returned
FalseAtFirstFailure ==
    \A i \in 1..Len(wf_polls) : EndsInFalse(i) => i = Len(wf_polls) /\ wf_pc = "false"

\* after any other poll the function sleeps 10 seconds and polls again,
\* unless the time is up
KeepsPolling ==
    /\ \A i \in 1..Len(wf_polls) :
          i < Len(wf_polls) =>
             wf_polls[i + 1].at = wf_polls[i].at + wf_polls[i].took + PollInterval
    /\ (wf_pc = "false" /\ (Len(wf_polls) = 0 \/ ~EndsInFalse(Len(wf_polls))))
          => wf_elapsed >= wf_timeout

\* C34: wait_for_autofix_ready returns True only if a poll observed a ready
\* status, returns False at the first poll that gets a 404 or a failed
\* status, polls again 10 seconds after any other poll, and always ends,
\* with False once timeout_s seconds have elapsed
C34_Polling ==
    /\ [](TrueOnlyWhenReady /\ FalseAtFirstFailure /\ KeepsPolling)
    /\ (wf_pc = "loop") ~> (wf_pc \in {"true", "false"})
    /\ (wf_pc = "loop" /\ wf_elapsed >= wf_timeout) ~> (wf_pc = "false")

\* the time ran out after three polls that neither succeeded nor failed
C34_Witness ==
    /\ wf_pc = "false"
    /\ Len(wf_polls) = 3
    /\ ~EndsInFalse(3)
    /\ wf_elapsed >= wf_timeout


(***************************************************************************)
(* The idempotency of upsert_issue.                                        *)
(***************************************************************************)
\* the open issues with the title, pull requests left out
Titled == {i \in 1..Len(up_issues) : up_issues[i].title = "T" /\ ~up_issues[i].pr}

\* no pull request carries the title
NoTitledPull == \A i \in 1..Len(up_issues) : up_issues[i].title = "T" => ~up_issues[i].pr

\* the calls are a PATCH on issue number n and no POST
PatchOn(made, n) ==
    /\ \E i \in 1..Len(made) : made[i] = IssueCall("PATCH", n)
    /\ \A i \in 1..Len(made) : made[i].method # "POST"

\* an upsert on a repository that has an open issue with the title patches
\* that issue and posts nothing
UpsertPatches(script) ==
    upsert(script) /\ Titled # {}
       => \E i \in Titled : PatchOn(up_calls', up_issues[i].number)

\* C35: in each of the three scripts, when the repository has an open
\* issue with the title, whatever the number of other open issues,
\* upsert_issue issues a PATCH on that issue and no POST; so sequential
\* upserts leave at most one open issue with the title
C35_Idempotent ==
    /\ [](Cardinality(Titled) <= 1)
    /\ [][\A script \in Scripts : UpsertPatches(script)]_vars

\* the part of C35 that stands: upsert_issue of the two triage scripts, on
\* a repository where no pull request carries the title, patches the issue
PaginatedUpsertPatches ==
    [][\A script \in {"triage_all_repos", "triage_and_act"} :
           NoTitledPull => UpsertPatches(script)]_vars


(***************************************************************************)
(* Existing branch protection and enable_automerge_all_repos.py.           *)
(***************************************************************************)
\* the protection of repository n was read and the read ended as end
ProtectionRead(n, end) ==
    \E i \in 1..Len(am_log) :
        /\ am_log[i].what = "get_branch_protection"
        /\ am_log[i].alert = n
        /\ am_log[i].end = end

\* a PUT on the branch protection of repository n was issued
ProtectionPut(n) ==
    \E i \in 1..Len(am_log) : am_log[i].method = "PUT" /\ am_log[i].alert = n

\* C36: without --force no PUT on the branch protection is issued for a
\* repository whose default branch already has protection; and, with or
\* without it, none for a repository whose protection could not be read
\* for an error other than 404
C36_ProtectionKept ==
    \A n \in 1..MaxMergeRepos + 1 :
        /\ ~am_force /\ ProtectionRead(n, "protected") => ~ProtectionPut(n)
        /\ ProtectionRead(n, "error") \/ ProtectionRead(n, "rate_limit") => ~ProtectionPut(n)

\* a run without --force that left the protection of one repository alone
\* and set the protection of another, which had none
C36_Witness ==
    /\ am_pc = "done"
    /\ ~am_force
    /\ ~am_dry
    /\ \E n, k \in 1..MaxMergeRepos :
          /\ ProtectionRead(n, "protected") /\ ~ProtectionPut(n)
          /\ ProtectionRead(k, "none") /\ ProtectionPut(k)


(***************************************************************************)
(* Existing files and bulk_add_dependabot_codeql.py.                       *)
(***************************************************************************)
\* no PUT of entry e of the log carries the blob SHA of the file
NoPutWithSha(e) == \A i \in 1..Len(e.puts) : ~e.puts[i].sha

====
